---- MODULE Spec2Model ----
(***************************************************************************)
(* A model of eero-cli: the monitor loop and the devices listing            *)
(* (internal/cmd/devices.go), the identifier resolvers (findDeviceID,      *)
(* findProfileID, findEeroID, findReservationID), the API client           *)
(* (internal/api/client.go), the App session (EnsureAuth, EnsureNetwork)   *)
(* and profile membership (AddDeviceToProfile, RemoveDeviceFromProfile).   *)
(*                                                                         *)
(* Go strings are sequences of one-character strings, so that             *)
(* strings.ToLower, strings.HasPrefix, strings.ReplaceAll and the slicing  *)
(* of api.Extract*ID are computed character by character.                  *)
(***************************************************************************)
EXTENDS Integers, Sequences, FiniteSets, TLC

VARIABLES
    pc,                   \* position of MonitorDevices: start, poll, sleep, returned
    filters,              \* the DeviceFilters argument
    resolvedProfileName,  \* devices.go:308
    interval,             \* devices.go:302
    prevState,            \* devices.go:331, map deviceID -> DeviceState
    first,                \* devices.go:332
    devices,              \* the listing the latest GetDevices returned
    fetch,                \* outcome of the latest GetDevices: none, ok, err
    rows,                 \* rows printMonitorRow printed in the latest tick
    errLines,             \* "Error fetching devices" lines printed in the latest tick
    sleepFor,             \* seconds of the time.Sleep in progress
    wasFirst,             \* history: the value of first when the latest tick began
    retErr,               \* what MonitorDevices returned
    rkind,                \* resolver run: which find*ID is called
    rlist,                \* resolver run: the listing its Get* call returns
    rquery,               \* resolver run: the query argument
    rout,                 \* resolver run: the (id, err) pair returned
    args,                 \* devices command: the arguments after "devices"
    listProfiles,         \* ListDevices: what its GetProfiles call returned
    listOut,              \* ListDevices: what it printed and returned
    token,                \* Client.token, client.go:20
    call,                 \* API client: the latest method call and the token held before it
    wire,                 \* API client: the exchanges of the latest call, request and outcome
    result,               \* API client: what the latest call returned
    config,               \* App.Config, the config in memory
    disk,                 \* the config file, what Config.Save wrote last
    target,               \* membership: the device and the queries the operator types
    members,              \* membership: the profile's device URLs on the server, in order
    original,             \* history: members when the session began
    written,              \* membership: the list the latest SetProfileDevices was given
    phase,                \* history: start, added, removed, other
    before,               \* history: the member list the latest membership command read
    inflight,             \* membership: a command between its GetProfileDetails and its SetProfileDevices
    external,             \* history: what the vendor's app changed while a command was in flight
    cmdline,              \* command: the command group and the arguments after it
    routed                \* command: the error returned, the handler run, the Resource Client calls issued

monitorVars == <<pc, filters, resolvedProfileName, interval, prevState, first,
                 devices, fetch, rows, errLines, sleepFor, wasFirst, retErr>>
resolverVars == <<rkind, rlist, rquery, rout>>
listVars == <<args, listProfiles, listOut>>
clientVars == <<token, call, wire, result>>
appVars == <<config, disk>>
profileVars == <<target, members, original, written, phase,
                 before, inflight, external>>
routeVars == <<cmdline, routed>>
vars == <<pc, filters, resolvedProfileName, interval, prevState, first,
          devices, fetch, rows, errLines, sleepFor, wasFirst, retErr,
          rkind, rlist, rquery, rout, args, listProfiles, listOut,
          token, call, wire, result, config, disk,
          target, members, original, written, phase,
          before, inflight, external, cmdline, routed>>

(***************************************************************************)
(* Strings                                                                 *)
(***************************************************************************)
LowerMap ==
    ("A" :> "a") @@ ("B" :> "b") @@ ("C" :> "c") @@ ("D" :> "d") @@
    ("E" :> "e") @@ ("F" :> "f") @@ ("G" :> "g") @@ ("H" :> "h") @@
    ("I" :> "i") @@ ("J" :> "j") @@ ("K" :> "k") @@ ("L" :> "l") @@
    ("M" :> "m") @@ ("N" :> "n") @@ ("O" :> "o") @@ ("P" :> "p") @@
    ("Q" :> "q") @@ ("R" :> "r") @@ ("S" :> "s") @@ ("T" :> "t") @@
    ("U" :> "u") @@ ("V" :> "v") @@ ("W" :> "w") @@ ("X" :> "x") @@
    ("Y" :> "y") @@ ("Z" :> "z")

ToLowerCh(c) == IF c \in DOMAIN LowerMap THEN LowerMap[c] ELSE c

\* strings.ToLower
ToLower(s) == [i \in 1..Len(s) |-> ToLowerCh(s[i])]

\* strings.EqualFold, on the ASCII letters of the model
EqualFold(s, t) == ToLower(s) = ToLower(t)

\* strings.HasPrefix
HasPrefix(s, p) == Len(p) <= Len(s) /\ SubSeq(s, 1, Len(p)) = p

\* strings.ReplaceAll(s, ":", "")
RECURSIVE StripColons(_)
StripColons(s) ==
    IF s = <<>> THEN <<>>
    ELSE IF Head(s) = ":" THEN StripColons(Tail(s))
    ELSE <<Head(s)>> \o StripColons(Tail(s))

\* strings.Contains
Contains(s, sub) ==
    \E k \in 0..(Len(s) - Len(sub)) : SubSeq(s, k + 1, k + Len(sub)) = sub

(***************************************************************************)
(* api.Extract*ID                                                          *)
(***************************************************************************)
\* api.ExtractDeviceID: url[13:] when len(url) > 12
ExtractDeviceID(url) ==
    IF Len(url) > 12 THEN SubSeq(url, 14, Len(url)) ELSE url

\* api.ExtractProfileID: url[14:] when len(url) > 13
ExtractProfileID(url) ==
    IF Len(url) > 13 THEN SubSeq(url, 15, Len(url)) ELSE url

DevicePrefix == <<"/", "2", ".", "2", "/", "d", "e", "v", "i", "c", "e", "s", "/">>
ProfilePrefix == <<"/", "2", ".", "2", "/", "p", "r", "o", "f", "i", "l", "e", "s", "/">>

(***************************************************************************)
(* Devices                                                                 *)
(***************************************************************************)
NilProfile == [IsNil |-> TRUE, URL |-> <<>>, Name |-> <<>>]

\* (*Device).DisplayName
DisplayName(d) ==
    IF d.Nickname # <<>> THEN d.Nickname
    ELSE IF d.Hostname # <<>> THEN d.Hostname
    ELSE d.MAC

\* The display string of a device's profile, devices.go:344-352
ProfileDisplay(d) ==
    IF d.IsGuest THEN <<"G", "u", "e", "s", "t">>
    ELSE IF ~d.Profile.IsNil
         THEN d.Profile.Name \o <<" ", "(">> \o ExtractProfileID(d.Profile.URL) \o <<")">>
         ELSE <<>>

\* The DeviceState literal of devices.go:389-399
CurrentState(d) ==
    [Name |-> DisplayName(d), IP |-> d.IP, MAC |-> d.MAC,
     Connected |-> d.Connected, Paused |-> d.Paused, Blocked |-> d.Blocked,
     Wireless |-> d.Wireless, IsGuest |-> d.IsGuest, Profile |-> ProfileDisplay(d)]

(***************************************************************************)
(* Bounds and input sets of the monitor loop                               *)
(***************************************************************************)
NumDevices == 2

DigitChars == <<"1", "2", "3", "4", "5", "6", "7", "8", "9">>

KidsName == <<"K", "i", "d", "s">>
KidsProfile == [IsNil |-> FALSE, URL |-> ProfilePrefix \o <<"p", "1">>, Name |-> KidsName]

\* Device i as the server first reports it.
BaseDevice(i) ==
    [URL |-> DevicePrefix \o <<"d", DigitChars[i]>>,
     MAC |-> <<"m", DigitChars[i]>>,
     Hostname |-> <<"h", DigitChars[i]>>,
     Nickname |-> <<>>,
     IP |-> <<"1", ".", DigitChars[i]>>,
     Connected |-> TRUE, Wireless |-> TRUE, Paused |-> FALSE, Blocked |-> FALSE,
     IsGuest |-> FALSE, Profile |-> NilProfile]

AltFields == {"Connected", "Paused", "Blocked", "IP", "Nickname", "MAC",
              "Wireless", "IsGuest", "Profile"}

\* Device i with field f changed on the server (or none, for "base").
Variant(i, f) ==
    LET d == BaseDevice(i) IN
    CASE f = "base" -> d
      [] f = "Connected" -> [d EXCEPT !.Connected = ~@]
      [] f = "Paused" -> [d EXCEPT !.Paused = ~@]
      [] f = "Blocked" -> [d EXCEPT !.Blocked = ~@]
      [] f = "IP" -> [d EXCEPT !.IP = <<"9", ".", DigitChars[i]>>]
      [] f = "Nickname" -> [d EXCEPT !.Nickname = <<"n", DigitChars[i]>>]
      [] f = "MAC" -> [d EXCEPT !.MAC = <<"x", DigitChars[i]>>]
      [] f = "Wireless" -> [d EXCEPT !.Wireless = ~@]
      [] f = "IsGuest" -> [d EXCEPT !.IsGuest = ~@]
      [] f = "Profile" -> [d EXCEPT !.Profile = KidsProfile]

\* A listing, in server order: the devices of `present`, device `altered`
\* (0 for none) with field f changed. One device at a time differs from its
\* base record; over several polls every device takes every variant.
RECURSIVE ListingFrom(_, _, _, _)
ListingFrom(present, altered, f, i) ==
    IF i > NumDevices THEN <<>>
    ELSE IF i \in present
    THEN <<Variant(i, IF i = altered THEN f ELSE "base")>>
         \o ListingFrom(present, altered, f, i + 1)
    ELSE ListingFrom(present, altered, f, i + 1)

\* The listings GetDevices can return.
Listings ==
    { ListingFrom(present, 0, "base", 1) : present \in SUBSET (1..NumDevices) }
    \cup { ListingFrom(pa[1], pa[2], f, 1) :
             pa \in { q \in (SUBSET (1..NumDevices)) \X (1..NumDevices) : q[2] \in q[1] },
             f \in AltFields }

NoFilters ==
    [Profile |-> <<>>, NoProfile |-> FALSE, Wired |-> FALSE, Wireless |-> FALSE,
     Online |-> FALSE, Offline |-> FALSE, Guest |-> FALSE, NoGuest |-> FALSE,
     Interval |-> 0]

\* The filter settings the monitor loop is run with.
FilterChoices ==
    {NoFilters,
     [NoFilters EXCEPT !.Online = TRUE, !.Interval = 5],
     [NoFilters EXCEPT !.Wired = TRUE, !.NoGuest = TRUE],
     [NoFilters EXCEPT !.Profile = <<"k", "i", "d", "s">>, !.Interval = 5]}

\* What GetProfiles may return while the --profile filter is resolved.
ProfileListings ==
    {<<>>, <<[URL |-> KidsProfile.URL, Name |-> KidsName, Paused |-> FALSE]>>}

(***************************************************************************)
(* MonitorDevices                                                          *)
(***************************************************************************)
\* devices.go:307-323: the name the --profile filter resolves to.
RECURSIVE FirstProfileName(_, _, _)
FirstProfileName(profiles, i, want) ==
    IF i > Len(profiles) THEN <<>>
    ELSE IF EqualFold(ExtractProfileID(profiles[i].URL), want)
            \/ EqualFold(profiles[i].Name, want)
         THEN profiles[i].Name
         ELSE FirstProfileName(profiles, i + 1, want)

ResolveProfileName(f, ok, profiles) ==
    IF f.Profile = <<>> THEN <<>>
    ELSE LET found == IF ok THEN FirstProfileName(profiles, 1, f.Profile) ELSE <<>>
         IN IF found = <<>> THEN f.Profile ELSE found

\* devices.go:343-386: TRUE when the loop does not `continue` past device d.
MonitorPasses(f, rpn, d) ==
    LET profileName == IF ~d.IsGuest /\ ~d.Profile.IsNil THEN d.Profile.Name ELSE <<>>
        profileID == IF ~d.Profile.IsNil THEN ExtractProfileID(d.Profile.URL) ELSE <<>>
    IN /\ (f.Profile # <<>> =>
             (EqualFold(profileName, rpn) \/ EqualFold(profileID, f.Profile)))
       /\ ~(f.Wired /\ d.Wireless)
       /\ ~(f.Wireless /\ ~d.Wireless)
       /\ ~(f.Online /\ ~d.Connected)
       /\ ~(f.Offline /\ d.Connected)
       /\ ~(f.Guest /\ ~d.IsGuest)
       /\ ~(f.NoGuest /\ d.IsGuest)
       /\ ~(f.NoProfile /\ ~d.Profile.IsNil)

\* Mutants of HasChanges: the first-tick guard dropped; the whole DeviceState
\* compared instead of its four tracked fields.
HasChangesIgnoringFirst(isFirst, prev, deviceID, cur) ==
    IF deviceID \in DOMAIN prev
    THEN \/ prev[deviceID].Connected # cur.Connected
         \/ prev[deviceID].Paused # cur.Paused
         \/ prev[deviceID].Blocked # cur.Blocked
         \/ prev[deviceID].IP # cur.IP
    ELSE TRUE

HasChangesWholeState(isFirst, prev, deviceID, cur) ==
    IF ~isFirst /\ deviceID \in DOMAIN prev THEN prev[deviceID] # cur
    ELSE IF ~isFirst THEN TRUE
    ELSE FALSE

\* devices.go:401-413
HasChanges(isFirst, prev, deviceID, cur) ==
    LET exists == deviceID \in DOMAIN prev IN
    IF ~isFirst /\ exists
    THEN \/ prev[deviceID].Connected # cur.Connected
         \/ prev[deviceID].Paused # cur.Paused
         \/ prev[deviceID].Blocked # cur.Blocked
         \/ prev[deviceID].IP # cur.IP
    ELSE IF ~isFirst /\ ~exists THEN TRUE
    ELSE FALSE

\* Mutant of StoreState: the snapshot is stored only for a device not yet in the map.
StoreStateOnlyNew(prev, deviceID, cur) ==
    IF deviceID \in DOMAIN prev THEN prev
    ELSE [k \in DOMAIN prev \cup {deviceID} |-> IF k = deviceID THEN cur ELSE prev[k]]

\* devices.go:419: prevState[deviceID] = currentState
\* Mutant of StoreState: the map is rebuilt from the device at hand.
StoreStateForgets(prev, deviceID, cur) ==
    [k \in {deviceID} |-> cur]

StoreState(prev, deviceID, cur) ==
    [k \in DOMAIN prev \cup {deviceID} |-> IF k = deviceID THEN cur ELSE prev[k]]

\* devices.go:342-420: the loop over one listing. acc is the snapshot map and
\* the rows printed so far.
RECURSIVE MonitorLoopBody(_, _, _, _, _, _)
MonitorLoopBody(devs, i, f, rpn, isFirst, acc) ==
    IF i > Len(devs) THEN acc
    ELSE IF ~MonitorPasses(f, rpn, devs[i])
    THEN MonitorLoopBody(devs, i + 1, f, rpn, isFirst, acc)
    ELSE LET deviceID == ExtractDeviceID(devs[i].URL)
             cur == CurrentState(devs[i])
             \* printMonitorRow: the row's other columns are those of cur
             row == [ID |-> deviceID, IsNew |-> deviceID \notin DOMAIN acc.prevState]
         IN MonitorLoopBody(devs, i + 1, f, rpn, isFirst,
                [prevState |-> StoreState(acc.prevState, deviceID, cur),
                 rows |-> IF HasChanges(isFirst, acc.prevState, deviceID, cur)
                          THEN Append(acc.rows, row) ELSE acc.rows])

DefaultInterval == 10

\* devices.go:302-305
EffectiveInterval(f) == IF f.Interval <= 0 THEN DefaultInterval ELSE f.Interval

(***************************************************************************)
(* Identifier resolution: findDeviceID, findProfileID, findEeroID,         *)
(* findReservationID                                                       *)
(***************************************************************************)
\* The trailing path segment of a resource URL.
RECURSIVE TrailingSegment(_)
TrailingSegment(url) ==
    IF \A k \in 1..Len(url) : url[k] # "/" THEN url
    ELSE TrailingSegment(Tail(url))

\* api.ExtractEeroID and api.ExtractReservationID: the trailing path segment.
ExtractEeroID(url) == TrailingSegment(url)
ExtractReservationID(url) == TrailingSegment(url)

\* The outcome of a find*ID call: the (id, err) pair it returns.
NoErr == [msg |-> "", query |-> <<>>]
NotRun == [done |-> FALSE, found |-> FALSE, id |-> <<>>, err |-> NoErr]
Found(id) == [done |-> TRUE, found |-> TRUE, id |-> id, err |-> NoErr]
Failed(msg, q) ==
    [done |-> TRUE, found |-> FALSE, id |-> <<>>, err |-> [msg |-> msg, query |-> q]]

\* devices.go:508 and reservations.go:149: the MAC comparison.
MacMatchesExactOnly(mac, query) == ToLower(mac) = query

MacMatches(mac, query) ==
    \/ ToLower(mac) = query
    \/ StripColons(ToLower(mac)) = StripColons(query)

\* Mutant of DeviceMatches: the name test accepts a query that is part of the name.
DeviceMatchesNamePart(d, query) ==
    LET deviceID == ExtractDeviceID(d.URL) IN
    \/ deviceID = query
    \/ HasPrefix(ToLower(deviceID), query)
    \/ MacMatches(d.MAC, query)
    \/ Contains(ToLower(DisplayName(d)), query)

\* devices.go:494-516: the tests one device is put to, query already lower-cased.
DeviceMatches(d, query) ==
    LET deviceID == ExtractDeviceID(d.URL) IN
    \/ deviceID = query
    \/ HasPrefix(ToLower(deviceID), query)
    \/ MacMatches(d.MAC, query)
    \/ EqualFold(DisplayName(d), query)

\* profiles.go:82-99
ProfileMatches(p, query) ==
    LET profileID == ExtractProfileID(p.URL) IN
    \/ profileID = query
    \/ HasPrefix(ToLower(profileID), query)
    \/ EqualFold(p.Name, query)

\* findEeroID, the loop body
EeroMatches(e, query) ==
    LET eeroID == ExtractEeroID(e.URL) IN
    \/ eeroID = query
    \/ HasPrefix(ToLower(eeroID), query)
    \/ EqualFold(e.Serial, query)
    \/ Contains(ToLower(e.Location), query)

\* reservations.go:140-157
ReservationMatches(r, query) ==
    LET reservationID == ExtractReservationID(r.URL) IN
    \/ reservationID = query
    \/ MacMatches(r.MAC, query)
    \/ r.IP = query

Matches(kind, c, query) ==
    CASE kind = "device" -> DeviceMatches(c, query)
      [] kind = "profile" -> ProfileMatches(c, query)
      [] kind = "eero" -> EeroMatches(c, query)
      [] kind = "reservation" -> ReservationMatches(c, query)

ExtractID(kind, url) ==
    CASE kind = "device" -> ExtractDeviceID(url)
      [] kind = "profile" -> ExtractProfileID(url)
      [] kind = "eero" -> ExtractEeroID(url)
      [] kind = "reservation" -> ExtractReservationID(url)

NotFoundMsg(kind) ==
    CASE kind = "device" -> "device not found"
      [] kind = "profile" -> "profile not found"
      [] kind = "eero" -> "eero not found"
      [] kind = "reservation" -> "reservation not found"

FetchErrMsg(kind) ==
    CASE kind = "device" -> "getting devices"
      [] kind = "profile" -> "getting profiles"
      [] kind = "eero" -> "getting eeros"
      [] kind = "reservation" -> "getting reservations"

\* The for loop of a find*ID: the first candidate in listing order that
\* matches returns its ID; falling off the end returns the not-found error,
\* formatted with the query variable as it is at that point.
RECURSIVE Scan(_, _, _, _)
Scan(kind, list, i, query) ==
    IF i > Len(list) THEN Failed(NotFoundMsg(kind), query)
    ELSE IF Matches(kind, list[i], query) THEN Found(ExtractID(kind, list[i].URL))
    ELSE Scan(kind, list, i + 1, query)

\* Mutant of findDeviceID: the query is compared as typed.
findDeviceIDKeepCase(list, query) == Scan("device", list, 1, query)

\* devices.go:492-518: query = strings.ToLower(query), then the loop.
findDeviceID(list, query) == Scan("device", list, 1, ToLower(query))

\* profiles.go:80-101
findProfileID(list, query) == Scan("profile", list, 1, ToLower(query))

\* findEeroID
findEeroID(list, query) == Scan("eero", list, 1, ToLower(query))

\* reservations.go:138-159
findReservationID(list, query) == Scan("reservation", list, 1, ToLower(query))

Resolve(kind, list, query) ==
    CASE kind = "device" -> findDeviceID(list, query)
      [] kind = "profile" -> findProfileID(list, query)
      [] kind = "eero" -> findEeroID(list, query)
      [] kind = "reservation" -> findReservationID(list, query)


\* strings.ToUpper, used to spell queries in other letter cases
UpperCh(c) ==
    IF \E u \in DOMAIN LowerMap : LowerMap[u] = c
    THEN CHOOSE u \in DOMAIN LowerMap : LowerMap[u] = c
    ELSE c
ToUpper(s) == [i \in 1..Len(s) |-> UpperCh(s[i])]
Capitalise(s) == IF s = <<>> THEN s ELSE <<UpperCh(Head(s))>> \o Tail(s)

MaxCandidates == 2

\* Listings of at most MaxCandidates candidates drawn from a pool.
ListingsOver(pool) == UNION {[1..n -> pool] : n \in 0..MaxCandidates}

\* Devices as GetDevices lists them: URLs in the shape the server returns
\* (/2.2/networks/{net}/devices/{id}) and in the shape ExtractDeviceID
\* documents (/2.2/devices/{id}); MACs stored in either letter case.
DevicePool ==
    { [BaseDevice(1) EXCEPT !.URL = <<"/", "2", ".", "2", "/", "n", "e", "t", "w", "o", "r", "k", "s", "/", "1", "/", "d", "e", "v", "i", "c", "e", "s", "/", "a", "b", "c", "d">>,
        !.MAC = <<"A", "B", ":", "E", "F">>, !.Nickname = <<>>, !.Hostname = <<"p", "c">>],
      [BaseDevice(1) EXCEPT !.URL = <<"/", "2", ".", "2", "/", "d", "e", "v", "i", "c", "e", "s", "/", "A", "B", "c", "d">>,
        !.MAC = <<"1", "2", ":", "3", "4">>, !.Nickname = <<"P", "c", "2">>, !.Hostname = <<"h", "2">>],
      [BaseDevice(1) EXCEPT !.URL = <<"/", "2", ".", "2", "/", "n", "e", "t", "w", "o", "r", "k", "s", "/", "1", "/", "d", "e", "v", "i", "c", "e", "s", "/", "e", "f", "1", "2">>,
        !.MAC = <<"a", "b", ":", "c", "d">>, !.Nickname = <<"a", "b", "e", "f">>, !.Hostname = <<>>] }

ProfilePool ==
    { [URL |-> <<"/", "2", ".", "2", "/", "n", "e", "t", "w", "o", "r", "k", "s", "/", "1", "/", "p", "r", "o", "f", "i", "l", "e", "s", "/", "p", "1">>, Name |-> <<"K", "i", "d">>],
      [URL |-> <<"/", "2", ".", "2", "/", "p", "r", "o", "f", "i", "l", "e", "s", "/", "P", "2">>, Name |-> <<"p", "1">>],
      [URL |-> <<"/", "2", ".", "2", "/", "p", "r", "o", "f", "i", "l", "e", "s", "/", "k", "i", "d">>, Name |-> <<"K", "i", "d", "s">>] }

EeroPool ==
    { [URL |-> <<"/", "2", ".", "2", "/", "e", "e", "r", "o", "s", "/", "e", "1">>, Serial |-> <<"S", "N", "1">>, Location |-> <<"D", "e", "n">>],
      [URL |-> <<"/", "2", ".", "2", "/", "e", "e", "r", "o", "s", "/", "E", "2">>, Serial |-> <<"e", "1">>, Location |-> <<"A", "t", "t", "i", "c">>],
      [URL |-> <<"/", "2", ".", "2", "/", "e", "e", "r", "o", "s", "/", "s", "n", "1">>, Serial |-> <<"s", "n", "3">>, Location |-> <<"K", "i", "t", "c", "h", "e", "n">>] }

ReservationPool ==
    { [URL |-> <<"/", "2", ".", "2", "/", "n", "e", "t", "w", "o", "r", "k", "s", "/", "1", "/", "r", "e", "s", "e", "r", "v", "a", "t", "i", "o", "n", "s", "/", "r", "1">>, MAC |-> <<"A", "B", ":", "C", "D">>, IP |-> <<"1", "0", ".", "1">>],
      [URL |-> <<"/", "2", ".", "2", "/", "n", "e", "t", "w", "o", "r", "k", "s", "/", "1", "/", "r", "e", "s", "e", "r", "v", "a", "t", "i", "o", "n", "s", "/", "a", "b", "c", "d">>, MAC |-> <<"1", "2", ":", "3", "4">>, IP |-> <<"F", "E", ":", ":", "1">>],
      [URL |-> <<"/", "2", ".", "2", "/", "n", "e", "t", "w", "o", "r", "k", "s", "/", "1", "/", "r", "e", "s", "e", "r", "v", "a", "t", "i", "o", "n", "s", "/", "R", "3">>, MAC |-> <<"a", "b", ":", "e", "f">>, IP |-> <<"f", "e", ":", ":", "1">>] }

DeviceListings == ListingsOver(DevicePool)
ProfileCandidates == ListingsOver(ProfilePool)
EeroListings == ListingsOver(EeroPool)
ReservationListings == ListingsOver(ReservationPool)

Kinds == {"device", "profile", "eero", "reservation"}

ListingsOf(kind) ==
    CASE kind = "device" -> DeviceListings
      [] kind = "profile" -> ProfileCandidates
      [] kind = "eero" -> EeroListings
      [] kind = "reservation" -> ReservationListings

\* The queries an operator types, in lower case.
BaseQueries ==
    { <<>>,
      <<"k", "i">>,
      <<"b", "e">>,
      <<"a", "b", "c", "d">>,
      <<"a", "b", ":", "c", "d">>,
      <<"a", "b", "e", "f">>,
      <<"a", "b", ":", "e", "f">>,
      <<"a", "b">>,
      <<"p", "c">>,
      <<"e", "f", "1", "2">>,
      <<"z", "z">>,
      <<"k", "i", "d">>,
      <<"p", "1">>,
      <<"s", "n", "1">>,
      <<"e", "1">>,
      <<"e", "n">>,
      <<"r", "1">>,
      <<"1", "0", ".", "1">>,
      <<"f", "e", ":", ":", "1">> }

\* The same queries in lower case, in upper case and capitalised.
Queries ==
    BaseQueries \cup {ToUpper(q) : q \in BaseQueries}
                \cup {Capitalise(q) : q \in BaseQueries}

NoResolverRun ==
    /\ rkind = "none" /\ rlist = <<>> /\ rquery = <<>>
    /\ rout = NotRun

(***************************************************************************)
(* The devices command: Devices (flag parsing and dispatch) and ListDevices *)
(***************************************************************************)
\* A command-line argument: name is the argument when it is one of the
\* literals the code compares with, the prefix for the --profile= and
\* --interval= forms, and "" for any other word; val is the text of the
\* argument, or the text after '=' for the two prefixed forms.
DigitValue ==
    ("0" :> 0) @@ ("1" :> 1) @@ ("2" :> 2) @@ ("3" :> 3) @@ ("4" :> 4) @@
    ("5" :> 5) @@ ("6" :> 6) @@ ("7" :> 7) @@ ("8" :> 8) @@ ("9" :> 9)

\* strconv.Atoi on an unsigned decimal; ok is FALSE for anything else.
RECURSIVE AtoiFrom(_, _, _)
AtoiFrom(s, i, n) ==
    IF i > Len(s) THEN [ok |-> TRUE, n |-> n]
    ELSE IF s[i] \in DOMAIN DigitValue
         THEN AtoiFrom(s, i + 1, n * 10 + DigitValue[s[i]])
         ELSE [ok |-> FALSE, n |-> 0]

Atoi(s) == IF s = <<>> THEN [ok |-> FALSE, n |-> 0] ELSE AtoiFrom(s, 1, 0)

\* devices.go:27-64: the flag loop of Devices.
RECURSIVE ParseDeviceArgs(_, _, _)
ParseDeviceArgs(a, i, acc) ==
    IF i > Len(a) THEN acc
    ELSE LET t == a[i].name IN
         IF t = "--profile" /\ i + 1 <= Len(a)
         THEN ParseDeviceArgs(a, i + 2, [acc EXCEPT !.filters.Profile = a[i + 1].val])
         ELSE IF t = "--profile="
         THEN ParseDeviceArgs(a, i + 1, [acc EXCEPT !.filters.Profile = a[i].val])
         ELSE IF t = "--wired"
         THEN ParseDeviceArgs(a, i + 1, [acc EXCEPT !.filters.Wired = TRUE])
         ELSE IF t = "--wireless"
         THEN ParseDeviceArgs(a, i + 1, [acc EXCEPT !.filters.Wireless = TRUE])
         ELSE IF t = "--online"
         THEN ParseDeviceArgs(a, i + 1, [acc EXCEPT !.filters.Online = TRUE])
         ELSE IF t = "--offline"
         THEN ParseDeviceArgs(a, i + 1, [acc EXCEPT !.filters.Offline = TRUE])
         ELSE IF t = "--guest"
         THEN ParseDeviceArgs(a, i + 1, [acc EXCEPT !.filters.Guest = TRUE])
         ELSE IF t = "--noguest"
         THEN ParseDeviceArgs(a, i + 1, [acc EXCEPT !.filters.NoGuest = TRUE])
         ELSE IF t = "--noprofile"
         THEN ParseDeviceArgs(a, i + 1, [acc EXCEPT !.filters.NoProfile = TRUE])
         ELSE IF t = "--interval" /\ i + 1 <= Len(a)
         THEN ParseDeviceArgs(a, i + 2,
                  IF Atoi(a[i + 1].val).ok
                  THEN [acc EXCEPT !.filters.Interval = Atoi(a[i + 1].val).n]
                  ELSE acc)
         ELSE IF t = "--interval="
         THEN ParseDeviceArgs(a, i + 1,
                  IF Atoi(a[i].val).ok
                  THEN [acc EXCEPT !.filters.Interval = Atoi(a[i].val).n]
                  ELSE acc)
         ELSE ParseDeviceArgs(a, i + 1, [acc EXCEPT !.rest = Append(@, a[i])])

DeviceArgs(a) == ParseDeviceArgs(a, 1, [filters |-> NoFilters, rest |-> <<>>])

\* devices.go:70-99: the subcommands the switch knows.
DeviceSubcommands == {"monitor", "pause", "unpause", "block", "unblock", "rename"}

\* devices.go:112-133: the profile the --profile filter resolves to.
RECURSIVE FirstProfile(_, _, _)
FirstProfile(profiles, i, want) ==
    IF i > Len(profiles) THEN [name |-> <<>>, id |-> <<>>]
    ELSE IF EqualFold(ExtractProfileID(profiles[i].URL), want)
            \/ EqualFold(profiles[i].Name, want)
         THEN [name |-> profiles[i].Name, id |-> ExtractProfileID(profiles[i].URL)]
         ELSE FirstProfile(profiles, i + 1, want)

ListResolveProfile(f, got) ==
    IF f.Profile = <<>> THEN [name |-> <<>>, id |-> <<>>]
    ELSE LET found == IF got.ok THEN FirstProfile(got.list, 1, f.Profile)
                      ELSE [name |-> <<>>, id |-> <<>>]
         IN IF found.name = <<>> THEN [found EXCEPT !.name = f.Profile] ELSE found

\* Mutants of ListPasses: the wireless test left out; the profile filter
\* compared with the profile name only.
ListPassesNoWirelessTest(f, rpn, d) ==
    LET shown == ~d.IsGuest /\ ~d.Profile.IsNil
        profileName == IF shown THEN d.Profile.Name ELSE <<>>
        profileID == IF shown THEN ExtractProfileID(d.Profile.URL) ELSE <<>>
    IN /\ (f.Profile # <<>> =>
             (EqualFold(profileName, rpn) \/ EqualFold(profileID, f.Profile)))
       /\ ~(f.Wired /\ d.Wireless)
       /\ ~(f.Online /\ ~d.Connected)
       /\ ~(f.Offline /\ d.Connected)
       /\ ~(f.Guest /\ ~d.IsGuest)
       /\ ~(f.NoGuest /\ d.IsGuest)
       /\ ~(f.NoProfile /\ ~d.Profile.IsNil)

ListPassesNameOnly(f, rpn, d) ==
    LET shown == ~d.IsGuest /\ ~d.Profile.IsNil
        profileName == IF shown THEN d.Profile.Name ELSE <<>>
    IN /\ (f.Profile # <<>> => EqualFold(profileName, rpn))
       /\ ~(f.Wired /\ d.Wireless)
       /\ ~(f.Wireless /\ ~d.Wireless)
       /\ ~(f.Online /\ ~d.Connected)
       /\ ~(f.Offline /\ d.Connected)
       /\ ~(f.Guest /\ ~d.IsGuest)
       /\ ~(f.NoGuest /\ d.IsGuest)
       /\ ~(f.NoProfile /\ ~d.Profile.IsNil)

\* devices.go:139-187: TRUE when the loop of ListDevices does not `continue`
\* past device d.
ListPasses(f, rpn, d) ==
    LET shown == ~d.IsGuest /\ ~d.Profile.IsNil
        profileName == IF shown THEN d.Profile.Name ELSE <<>>
        profileID == IF shown THEN ExtractProfileID(d.Profile.URL) ELSE <<>>
    IN /\ (f.Profile # <<>> =>
             (EqualFold(profileName, rpn) \/ EqualFold(profileID, f.Profile)))
       /\ ~(f.Wired /\ d.Wireless)
       /\ ~(f.Wireless /\ ~d.Wireless)
       /\ ~(f.Online /\ ~d.Connected)
       /\ ~(f.Offline /\ d.Connected)
       /\ ~(f.Guest /\ ~d.IsGuest)
       /\ ~(f.NoGuest /\ d.IsGuest)
       /\ ~(f.NoProfile /\ ~d.Profile.IsNil)

\* devices.go:191-204
StatusOf(d) ==
    IF d.Blocked THEN "blocked"
    ELSE IF d.Paused THEN "paused"
    ELSE IF d.Connected THEN "online"
    ELSE "offline"

\* devices.go:208-219: the table row of device d.
ListRow(d) ==
    [ID |-> ExtractDeviceID(d.URL), Name |-> DisplayName(d), IP |-> d.IP,
     MAC |-> d.MAC, Status |-> StatusOf(d),
     ConnType |-> IF d.Wireless THEN "wireless" ELSE "wired",
     Profile |-> ProfileDisplay(d)]

\* devices.go:139-220: the loop of ListDevices.
RECURSIVE ListLoop(_, _, _, _, _)
ListLoop(devs, i, f, rpn, acc) ==
    IF i > Len(devs) THEN acc
    ELSE IF ~ListPasses(f, rpn, devs[i]) THEN ListLoop(devs, i + 1, f, rpn, acc)
    ELSE ListLoop(devs, i + 1, f, rpn,
             [rows |-> Append(acc.rows, ListRow(devs[i])),
              filteredCount |-> acc.filteredCount + 1])

\* devices.go:224-253: the parts of the filter description.
FilterParts(f, resolved) ==
    (IF f.Profile # <<>>
     THEN <<IF resolved.id # <<>> THEN "profile: name [id]" ELSE "profile: filter">>
     ELSE <<>>)
    \o (IF f.Wired THEN <<"wired">> ELSE <<>>)
    \o (IF f.Wireless THEN <<"wireless">> ELSE <<>>)
    \o (IF f.Online THEN <<"online">> ELSE <<>>)
    \o (IF f.Offline THEN <<"offline">> ELSE <<>>)
    \o (IF f.Guest THEN <<"guest">> ELSE <<>>)
    \o (IF f.NoGuest THEN <<"no guest">> ELSE <<>>)
    \o (IF f.NoProfile THEN <<"no profile">> ELSE <<>>)

\* What ListDevices prints and returns for a listing and a profile fetch.
ListDevicesResult(f, devs, got) ==
    LET resolved == ListResolveProfile(f, got)
        r == ListLoop(devs, 1, f, resolved.name, [rows |-> <<>>, filteredCount |-> 0])
        parts == FilterParts(f, resolved)
    IN [done |-> TRUE, err |-> "", rows |-> r.rows,
        total |-> IF Len(parts) > 0 THEN r.filteredCount ELSE Len(devs),
        parts |-> parts]

NotListed == [done |-> FALSE, err |-> "", rows |-> <<>>, total |-> 0, parts |-> <<>>]
ListError(msg) == [done |-> TRUE, err |-> msg, rows |-> <<>>, total |-> 0, parts |-> <<>>]
NotFetched == [fetched |-> FALSE, ok |-> FALSE, list |-> <<>>]

\* The profile a device may carry besides KidsProfile.
TeensProfile ==
    [IsNil |-> FALSE, URL |-> ProfilePrefix \o <<"p", "2">>,
     Name |-> <<"T", "e", "e", "n", "s">>]

\* Devices as GetDevices lists them to ListDevices: every filter predicate
\* is true of some and false of others.
ListDevicePool ==
    { [BaseDevice(1) EXCEPT !.Profile = KidsProfile],
      [BaseDevice(2) EXCEPT !.Connected = FALSE, !.Wireless = FALSE, !.Paused = TRUE],
      [BaseDevice(3) EXCEPT !.IsGuest = TRUE],
      [BaseDevice(4) EXCEPT !.IsGuest = TRUE, !.Profile = KidsProfile, !.Wireless = FALSE],
      [BaseDevice(5) EXCEPT !.Profile = TeensProfile, !.Connected = FALSE, !.Blocked = TRUE] }

ListListings == ListingsOver(ListDevicePool)

\* What GetProfiles returns to ListDevices: an error, or the profile list
\* (a profile a listed device carries can be missing from it: the two lists
\* come from two requests).
ListProfileFetches ==
    { [fetched |-> TRUE, ok |-> FALSE, list |-> <<>>],
      [fetched |-> TRUE, ok |-> TRUE, list |-> <<>>],
      [fetched |-> TRUE, ok |-> TRUE,
       list |-> <<[URL |-> KidsProfile.URL, Name |-> KidsName, Paused |-> FALSE]>>] }

\* The argument lists the devices command is run with.
ListArgChoices ==
    { <<>>,
      <<[name |-> "--online", val |-> <<"-", "-", "o", "n", "l", "i", "n", "e">>], [name |-> "--wireless", val |-> <<"-", "-", "w", "i", "r", "e", "l", "e", "s", "s">>]>>,
      <<[name |-> "--online", val |-> <<"-", "-", "o", "n", "l", "i", "n", "e">>], [name |-> "--wired", val |-> <<"-", "-", "w", "i", "r", "e", "d">>]>>,
      <<[name |-> "--wired", val |-> <<"-", "-", "w", "i", "r", "e", "d">>]>>,
      <<[name |-> "--offline", val |-> <<"-", "-", "o", "f", "f", "l", "i", "n", "e">>]>>,
      <<[name |-> "--guest", val |-> <<"-", "-", "g", "u", "e", "s", "t">>]>>,
      <<[name |-> "--noguest", val |-> <<"-", "-", "n", "o", "g", "u", "e", "s", "t">>], [name |-> "--interval=", val |-> <<"5">>]>>,
      <<[name |-> "--noprofile", val |-> <<"-", "-", "n", "o", "p", "r", "o", "f", "i", "l", "e">>]>>,
      <<[name |-> "--profile=", val |-> <<"k", "i", "d", "s">>]>>,
      <<[name |-> "--profile", val |-> <<"-", "-", "p", "r", "o", "f", "i", "l", "e">>], [name |-> "", val |-> <<"K", "I", "D", "S">>]>>,
      <<[name |-> "--profile=", val |-> <<"p", "1">>]>>,
      <<[name |-> "--profile=", val |-> <<"t", "e", "e", "n", "s">>]>>,
      <<[name |-> "--profile=", val |-> <<"t", "y", "p", "o">>]>>,
      <<[name |-> "--profile=", val |-> <<"K", "i", "d", "s">>], [name |-> "--online", val |-> <<"-", "-", "o", "n", "l", "i", "n", "e">>]>>,
      <<[name |-> "--paused", val |-> <<"-", "-", "p", "a", "u", "s", "e", "d">>]>>,
      <<[name |-> "--private", val |-> <<"-", "-", "p", "r", "i", "v", "a", "t", "e">>]>>,
      <<[name |-> "--profile", val |-> <<"-", "-", "p", "r", "o", "f", "i", "l", "e">>]>>,
      <<[name |-> "--interval", val |-> <<"-", "-", "i", "n", "t", "e", "r", "v", "a", "l">>], [name |-> "", val |-> <<"x">>], [name |-> "status", val |-> <<"s", "t", "a", "t", "u", "s">>]>> }

(***************************************************************************)
(* The API client (internal/api/client.go).  A JSON document is the tree   *)
(* encoding/json decodes it to; a response body is its text together with  *)
(* that tree, or with NotJSON when the text is no JSON document.           *)
(***************************************************************************)
JNull == [t |-> "null"]
JStr(s) == [t |-> "string", s |-> s]
JNum(n) == [t |-> "number", n |-> n]
JArr(a) == [t |-> "array", a |-> a]
JObj(f) == [t |-> "object", f |-> f]
NotJSON == [t |-> "invalid"]
Absent == [t |-> "absent"]

\* The member of a JSON object the decoder stores into a struct field.
Field(v, name) == IF name \in DOMAIN v.f THEN v.f[name] ELSE Absent

\* encoding/json leaves a field alone when its member is absent or null.
Skipped(v) == v.t \in {"absent", "null"}

\* json.Unmarshal(respBody, &apiErr), client.go:74 and 84-89: the decoder
\* reports a member of the wrong type as an error after storing the others.
UnmarshalAPIError(j) ==
    IF j.t = "null" THEN [ok |-> TRUE, Error |-> <<>>]
    ELSE IF j.t # "object" THEN [ok |-> FALSE, Error |-> <<>>]
    ELSE LET meta == Field(j, "meta") IN
         IF Skipped(meta) THEN [ok |-> TRUE, Error |-> <<>>]
         ELSE IF meta.t # "object" THEN [ok |-> FALSE, Error |-> <<>>]
         ELSE LET code == Field(meta, "code")
                  error == Field(meta, "error")
              IN [ok |-> /\ (Skipped(code) \/ code.t = "number")
                         /\ (Skipped(error) \/ error.t = "string"),
                  Error |-> IF error.t = "string" THEN error.s ELSE <<>>]

\* json.Unmarshal(data, &resp) into APIResponse, client.go:91-99: Data keeps
\* the raw member, null included; without the member it stays nil.
UnmarshalAPIResponse(j) ==
    IF j.t = "null" THEN [ok |-> TRUE, Data |-> Absent]
    ELSE IF j.t # "object" THEN [ok |-> FALSE, Data |-> Absent]
    ELSE LET meta == Field(j, "meta") IN
         [ok |-> \/ Skipped(meta)
                 \/ /\ meta.t = "object"
                    /\ (Skipped(Field(meta, "code")) \/ Field(meta, "code").t = "number")
                    /\ (Skipped(Field(meta, "server_id")) \/ Field(meta, "server_id").t = "string")
                    /\ (Skipped(Field(meta, "timestamp")) \/ Field(meta, "timestamp").t = "number"),
          Data |-> Field(j, "data")]

\* The string a struct field of type string receives.
StringField(v, name) ==
    LET m == Field(v, name) IN
    [ok |-> Skipped(m) \/ m.t = "string", s |-> IF m.t = "string" THEN m.s ELSE <<>>]

\* json.Unmarshal(resp.Data, &loginResp), client.go:101-104 and 119-122.
UnmarshalLoginResponse(j) ==
    IF j.t \in {"absent", "invalid"} THEN [ok |-> FALSE, UserToken |-> <<>>]
    ELSE IF j.t = "null" THEN [ok |-> TRUE, UserToken |-> <<>>]
    ELSE IF j.t # "object" THEN [ok |-> FALSE, UserToken |-> <<>>]
    ELSE [ok |-> StringField(j, "user_token").ok, UserToken |-> StringField(j, "user_token").s]

\* One element of "networks" decoded into a Network, client.go:144-148.
UnmarshalNetwork(j) ==
    IF j.t = "null" THEN [ok |-> TRUE, URL |-> <<>>, Name |-> <<>>]
    ELSE IF j.t # "object" THEN [ok |-> FALSE, URL |-> <<>>, Name |-> <<>>]
    ELSE [ok |-> StringField(j, "url").ok /\ StringField(j, "name").ok,
          URL |-> StringField(j, "url").s, Name |-> StringField(j, "name").s]

\* json.Unmarshal(resp.Data, &account), client.go:136-141 and 163-166.
UnmarshalAccount(j) ==
    IF j.t \in {"absent", "invalid"} THEN [ok |-> FALSE, Networks |-> <<>>]
    ELSE IF j.t = "null" THEN [ok |-> TRUE, Networks |-> <<>>]
    ELSE IF j.t # "object" THEN [ok |-> FALSE, Networks |-> <<>>]
    ELSE LET nets == Field(j, "networks") IN
         IF Skipped(nets) THEN [ok |-> StringField(j, "name").ok, Networks |-> <<>>]
         ELSE IF nets.t # "array" THEN [ok |-> FALSE, Networks |-> <<>>]
         ELSE [ok |-> /\ StringField(j, "name").ok
                      /\ \A k \in 1..Len(nets.a) : UnmarshalNetwork(nets.a[k]).ok,
               Networks |-> [k \in 1..Len(nets.a) |->
                                [URL |-> UnmarshalNetwork(nets.a[k]).URL,
                                 Name |-> UnmarshalNetwork(nets.a[k]).Name]]]

\* A Go error: nil, or the format of its message with the values formatted in.
NoError == [kind |-> "nil", status |-> 0, body |-> "", msg |-> <<>>]
Err(kind, status, body, msg) == [kind |-> kind, status |-> status, body |-> body, msg |-> msg]

\* client.go:13-16
baseURL == "https://api-user.e2ro.com"
userAgent == "eero-ios/2.16.0 (iPhone8,1; iOS 11.3)"

NoBody == [present |-> FALSE, json |-> JNull]
JSONBody(j) == [present |-> TRUE, json |-> j]

\* client.go:50-59: the request and its three headers; the Cookie header is
\* "s=" followed by the token and is set only for a non-empty token.
NewRequest(tok, method, path, body) ==
    [method |-> method,
     url |-> <<baseURL, path>>,
     UserAgent |-> userAgent,
     ContentType |-> "application/json",
     Cookie |-> [set |-> tok # <<>>,
                 value |-> IF tok # <<>> THEN <<"s", "=">> \o tok ELSE <<>>],
     body |-> body]

EmptyBody == [text |-> "", json |-> NotJSON]
NoBytes == [nil |-> TRUE, body |-> EmptyBody]
Bytes(b) == [nil |-> FALSE, body |-> b]

\* What httpClient.Do and io.ReadAll can give: no response, a response whose
\* body cannot be read, or a status with a body.
DoFails == [got |-> "no response", status |-> 0, body |-> EmptyBody]
ReadFails(s) == [got |-> "unreadable", status |-> s, body |-> EmptyBody]
Response(s, b) == [got |-> "response", status |-> s, body |-> b]

\* The status test with 300 taken for a success.
requestAccepting300(tok, method, path, body, o) ==
    LET sent == <<[req |-> NewRequest(tok, method, path, body), resp |-> o]>> IN
    IF o.got = "no response"
    THEN [sent |-> sent, bytes |-> NoBytes, err |-> Err("making request", 0, "", <<>>)]
    ELSE IF o.got = "unreadable"
    THEN [sent |-> sent, bytes |-> NoBytes, err |-> Err("reading response", 0, "", <<>>)]
    ELSE IF o.status < 200 \/ o.status > 300
    THEN LET apiErr == UnmarshalAPIError(o.body.json) IN
         IF apiErr.ok /\ apiErr.Error # <<>>
         THEN [sent |-> sent, bytes |-> NoBytes,
               err |-> Err("API error: %s", 0, "", apiErr.Error)]
         ELSE [sent |-> sent, bytes |-> NoBytes,
               err |-> Err("API error (status %d): %s", o.status, o.body.text, <<>>)]
    ELSE [sent |-> sent, bytes |-> Bytes(o.body), err |-> NoError]

\* Client.request, client.go:40-81, with the outcome o of the exchange.  The
\* bodies it marshals are maps of strings and the paths are well-formed, so
\* json.Marshal and http.NewRequest do not fail.
request(tok, method, path, body, o) ==
    LET sent == <<[req |-> NewRequest(tok, method, path, body), resp |-> o]>> IN
    IF o.got = "no response"
    THEN [sent |-> sent, bytes |-> NoBytes, err |-> Err("making request", 0, "", <<>>)]
    ELSE IF o.got = "unreadable"
    THEN [sent |-> sent, bytes |-> NoBytes, err |-> Err("reading response", 0, "", <<>>)]
    ELSE IF o.status < 200 \/ o.status >= 300
    THEN LET apiErr == UnmarshalAPIError(o.body.json) IN
         IF apiErr.ok /\ apiErr.Error # <<>>
         THEN [sent |-> sent, bytes |-> NoBytes,
               err |-> Err("API error: %s", 0, "", apiErr.Error)]
         ELSE [sent |-> sent, bytes |-> NoBytes,
               err |-> Err("API error (status %d): %s", o.status, o.body.text, <<>>)]
    ELSE [sent |-> sent, bytes |-> Bytes(o.body), err |-> NoError]

\* Client.Login, client.go:107-125.
Login(tok, identity, o) ==
    LET r == request(tok, "POST", "/2.2/login", JSONBody(JObj([login |-> JStr(identity)])), o)
        resp == UnmarshalAPIResponse(r.bytes.body.json)
        loginResp == UnmarshalLoginResponse(resp.Data)
    IN IF r.err # NoError THEN [token |-> tok, sent |-> r.sent, value |-> <<>>, err |-> r.err]
       ELSE IF ~resp.ok
       THEN [token |-> tok, sent |-> r.sent, value |-> <<>>,
             err |-> Err("parsing response: %w", 0, "", <<>>)]
       ELSE IF ~loginResp.ok
       THEN [token |-> tok, sent |-> r.sent, value |-> <<>>,
             err |-> Err("parsing login data: %w", 0, "", <<>>)]
       ELSE [token |-> tok, sent |-> r.sent, value |-> loginResp.UserToken, err |-> NoError]

\* LoginVerify with the request built from the token held before the call.
LoginVerifySetsTokenLast(tok, userToken, code, o) ==
    LET r == request(tok, "POST", "/2.2/login/verify",
                     JSONBody(JObj([code |-> JStr(code)])), o)
    IN [token |-> userToken, sent |-> r.sent, value |-> <<>>, err |-> r.err]

\* Client.LoginVerify, client.go:128-133: SetToken, then the request.
LoginVerify(tok, userToken, code, o) ==
    LET r == request(userToken, "POST", "/2.2/login/verify",
                     JSONBody(JObj([code |-> JStr(code)])), o)
    IN [token |-> userToken, sent |-> r.sent, value |-> <<>>, err |-> r.err]

NoAccount == [Networks |-> <<>>]

\* Client.GetAccount, client.go:151-168.
GetAccount(tok, o) ==
    LET r == request(tok, "GET", "/2.2/account", NoBody, o)
        resp == UnmarshalAPIResponse(r.bytes.body.json)
        account == UnmarshalAccount(resp.Data)
    IN IF r.err # NoError THEN [token |-> tok, sent |-> r.sent, value |-> NoAccount, err |-> r.err]
       ELSE IF ~resp.ok
       THEN [token |-> tok, sent |-> r.sent, value |-> NoAccount,
             err |-> Err("parsing response: %w", 0, "", <<>>)]
       ELSE IF ~account.ok
       THEN [token |-> tok, sent |-> r.sent, value |-> NoAccount,
             err |-> Err("parsing account data: %w", 0, "", <<>>)]
       ELSE [token |-> tok, sent |-> r.sent,
             value |-> [Networks |-> account.Networks], err |-> NoError]

\* ValidateToken without the test for an empty token.
ValidateTokenAlwaysAsks(tok, o) ==
    LET r == GetAccount(tok, o) IN
    [token |-> tok, sent |-> r.sent, value |-> r.err = NoError, err |-> NoError]

\* Client.ValidateToken, client.go:336-342.
ValidateToken(tok, o) ==
    IF tok = <<>> THEN [token |-> tok, sent |-> <<>>, value |-> FALSE, err |-> NoError]
    ELSE LET r == GetAccount(tok, o) IN
         [token |-> tok, sent |-> r.sent, value |-> r.err = NoError, err |-> NoError]

\* Tokens a client can hold: none, a session token, a token pending verification.
TokenList == << <<>>, <<"t", "1">>, <<"u", "2">> >>

NetworksPrefix == <<"/", "2", ".", "2", "/", "n", "e", "t", "w", "o", "r", "k", "s", "/">>
NetworkJSON(id) == JObj([url |-> JStr(NetworksPrefix \o id), name |-> JStr(<<"h", "o", "m", "e">>)])
AccountJSON(nets) ==
    JObj([meta |-> JObj([code |-> JNum(200)]),
          data |-> JObj([name |-> JStr(<<"a">>), networks |-> JArr(nets)])])

\* Response bodies: texts that are no JSON, error envelopes well and ill
\* formed, and the envelopes of the account and login endpoints.
BodyList ==
    << [text |-> "<html>Bad Gateway</html>", json |-> NotJSON],
       EmptyBody,
       [text |-> "{\"meta\":{\"code\":401,\"error\":\"error.session.invalid\"}}",
        json |-> JObj([meta |-> JObj([code |-> JNum(401), error |-> JStr(<<"i", "n", "v", "a", "l", "i", "d">>)])])],
       [text |-> "{\"meta\":{\"code\":500,\"error\":\"\"}}",
        json |-> JObj([meta |-> JObj([code |-> JNum(500), error |-> JStr(<<>>)])])],
       [text |-> "{\"meta\":{\"code\":\"x\",\"error\":\"denied\"}}",
        json |-> JObj([meta |-> JObj([code |-> JStr(<<"x">>), error |-> JStr(<<"d", "e", "n", "i", "e", "d">>)])])],
       [text |-> "{\"meta\":\"gone\"}", json |-> JObj([meta |-> JStr(<<"g", "o", "n", "e">>)])],
       [text |-> "null", json |-> JNull],
       [text |-> "[]", json |-> JArr(<<>>)],
       [text |-> "{\"meta\":{\"code\":200}}", json |-> JObj([meta |-> JObj([code |-> JNum(200)])])],
       [text |-> "{\"meta\":{\"code\":200},\"data\":{\"user_token\":\"u2\"}}",
        json |-> JObj([meta |-> JObj([code |-> JNum(200)]),
                       data |-> JObj([user_token |-> JStr(<<"u", "2">>)])])],
       [text |-> "{\"meta\":{\"code\":200},\"data\":{\"name\":\"a\",\"networks\":[]}}", json |-> AccountJSON(<<>>)],
       [text |-> "{\"meta\":{\"code\":200},\"data\":{\"name\":\"a\",\"networks\":[{\"url\":\"/2.2/networks/12345\",\"name\":\"home\"}]}}",
        json |-> AccountJSON(<<NetworkJSON(<<"1", "2", "3", "4", "5">>)>>)],
       [text |-> "{\"meta\":{\"code\":200},\"data\":{\"name\":\"a\",\"networks\":[{\"url\":\"/2.2/networks/67890\",\"name\":\"home\"},{\"url\":\"/2.2/networks/12345\",\"name\":\"home\"}]}}",
        json |-> AccountJSON(<<NetworkJSON(<<"6", "7", "8", "9", "0">>),
                              NetworkJSON(<<"1", "2", "3", "4", "5">>)>>)] >>

StatusList == <<199, 200, 204, 299, 300, 401, 500>>

\* Every outcome of one exchange with the server.
OutcomeList ==
    <<DoFails, ReadFails(200)>> \o
    [k \in 1..(Len(StatusList) * Len(BodyList)) |->
        Response(StatusList[((k - 1) \div Len(BodyList)) + 1],
                 BodyList[((k - 1) % Len(BodyList)) + 1])]

NoCall == [op |-> "none", arg |-> <<>>, held |-> <<>>]
NoResult == [value |-> <<>>, err |-> NoError]

(***************************************************************************)
(* The App session (cmd package): the config loaded at start, the client   *)
(* built from its token, EnsureAuth and EnsureNetwork.                     *)
(***************************************************************************)
\* api.ExtractNetworkID, client.go:344-351: url[14:] when len(url) > 14
ExtractNetworkID(url) ==
    IF Len(url) > 14 THEN SubSeq(url, 15, Len(url)) ELSE url

\* config.Config, config.go:17-20
EmptyConfig == [Token |-> <<>>, NetworkID |-> <<>>]

\* Config.HasToken, config.go:98-100
HasToken(cfg) == cfg.Token # <<>>

\* Config.Save, config.go:78-95: the file receives the config, or Save fails
\* and the file is left as it was.
Save(cfg, dsk, saveOK) ==
    IF saveOK THEN [disk |-> cfg, err |-> NoError]
    ELSE [disk |-> dsk, err |-> Err("save", 0, "", <<>>)]

\* App.EnsureAuth
EnsureAuth(cfg, tok, o) ==
    IF ~HasToken(cfg)
    THEN [sent |-> <<>>, err |-> Err("not logged in", 0, "", <<>>)]
    ELSE LET v == ValidateToken(tok, o) IN
         IF ~v.value
         THEN [sent |-> v.sent, err |-> Err("token is invalid or expired", 0, "", <<>>)]
         ELSE [sent |-> v.sent, err |-> NoError]

\* part_002:189-193: the ID is put in the config and the config saved.
StoreNetworkID(cfg, dsk, sent, networkID, saveOK) ==
    IF Save([cfg EXCEPT !.NetworkID = networkID], dsk, saveOK).err # NoError
    THEN [config |-> [cfg EXCEPT !.NetworkID = networkID], disk |-> dsk, sent |-> sent,
          value |-> <<>>, err |-> Err("saving config: %w", 0, "", <<>>)]
    ELSE [config |-> [cfg EXCEPT !.NetworkID = networkID],
          disk |-> Save([cfg EXCEPT !.NetworkID = networkID], dsk, saveOK).disk,
          sent |-> sent, value |-> networkID, err |-> NoError]

\* EnsureNetwork without the test for a cached network ID.
EnsureNetworkAlwaysFetches(cfg, dsk, auth, got, saveOK) ==
    IF auth.err # NoError
    THEN [config |-> cfg, disk |-> dsk, sent |-> auth.sent, value |-> <<>>, err |-> auth.err]
    ELSE IF got.err # NoError
    THEN [config |-> cfg, disk |-> dsk, sent |-> auth.sent \o got.sent, value |-> <<>>,
          err |-> Err("getting account: %w", 0, "", <<>>)]
    ELSE IF Len(got.value.Networks) = 0
    THEN [config |-> cfg, disk |-> dsk, sent |-> auth.sent \o got.sent, value |-> <<>>,
          err |-> Err("no networks found on this account", 0, "", <<>>)]
    ELSE StoreNetworkID(cfg, dsk, auth.sent \o got.sent,
                        ExtractNetworkID(got.value.Networks[1].URL), saveOK)

\* App.EnsureNetwork, part_002:168-195, given what its EnsureAuth returns
\* (auth), what its GetAccount returns if it comes to call it (got) and
\* whether Config.Save succeeds.  It reads the list of networks as
\* account.Networks.Data; the Account of client.go:136-141 holds that list as
\* Networks.
EnsureNetwork(cfg, dsk, auth, got, saveOK) ==
    IF auth.err # NoError
    THEN [config |-> cfg, disk |-> dsk, sent |-> auth.sent, value |-> <<>>, err |-> auth.err]
    ELSE IF cfg.NetworkID # <<>>
    THEN [config |-> cfg, disk |-> dsk, sent |-> auth.sent, value |-> cfg.NetworkID,
          err |-> NoError]
    ELSE IF got.err # NoError
    THEN [config |-> cfg, disk |-> dsk, sent |-> auth.sent \o got.sent, value |-> <<>>,
          err |-> Err("getting account: %w", 0, "", <<>>)]
    ELSE IF Len(got.value.Networks) = 0
    THEN [config |-> cfg, disk |-> dsk, sent |-> auth.sent \o got.sent, value |-> <<>>,
          err |-> Err("no networks found on this account", 0, "", <<>>)]
    ELSE StoreNetworkID(cfg, dsk, auth.sent \o got.sent,
                        ExtractNetworkID(got.value.Networks[1].URL), saveOK)

\* The config files a session can start from: no file, a token alone, a
\* token with a network ID cached by an earlier session.
StoredConfigs ==
    { [Token |-> TokenList[t], NetworkID |-> n] :
        t \in 1..Len(TokenList), n \in {<<>>, <<"5", "5", "5", "5", "5">>} }

\* The outcomes of OutcomeList a session is run against: no response, a
\* rejected token, a success that is no JSON, one without data, and accounts
\* with no, one and two networks.
SessionOutcomes ==
    { k \in 1..Len(OutcomeList) :
        \/ OutcomeList[k].got = "no response"
        \/ /\ OutcomeList[k].status = 401
           /\ OutcomeList[k].body = BodyList[3]
        \/ /\ OutcomeList[k].status = 200
           /\ \E b \in {1, 9, 11, 12, 13} : OutcomeList[k].body = BodyList[b] }

\* What App.Login returns and leaves: the config, the file, the client's
\* token, the exchanges made, the configs given to Save.
LoginReturn(cfg, dsk, tok, sent, kind) ==
    [config |-> cfg, disk |-> dsk, token |-> tok, sent |-> sent, saves |-> <<>>,
     err |-> Err(kind, 0, "", <<>>)]

\* part_002:41-59: the config is saved, with the first network's ID when the
\* account was fetched and has one; a failed fetch is reported as a warning.
LoginSave(cfg, dsk, tok, sent, saveOK) ==
    [config |-> cfg, disk |-> Save(cfg, dsk, saveOK).disk, token |-> tok, sent |-> sent,
     saves |-> <<cfg>>,
     err |-> IF Save(cfg, dsk, saveOK).err # NoError
             THEN Err("saving config: %w", 0, "", <<>>) ELSE NoError]

\* part_002:35-59: after the verification.
LoggedIn(cfg, dsk, userToken, sent, account, saveOK) ==
    IF account.err = NoError /\ Len(account.value.Networks) > 0
    THEN LoginSave([Token |-> userToken,
                    NetworkID |-> ExtractNetworkID(account.value.Networks[1].URL)],
                   dsk, userToken, sent \o account.sent, saveOK)
    ELSE LoginSave([cfg EXCEPT !.Token = userToken], dsk, userToken,
                   sent \o account.sent, saveOK)

\* Variant: the token is put in the config as soon as Login returned it.
AppLoginStoresEarly(cfg, dsk, tok, identity, code, login, verify, account, saveOK) ==
    IF identity = <<>>
    THEN LoginReturn(cfg, dsk, tok, <<>>, "email or phone number is required")
    ELSE IF login.err # NoError
    THEN LoginReturn(cfg, dsk, login.token, login.sent, "login failed: %w")
    ELSE IF code = <<>>
    THEN LoginReturn([cfg EXCEPT !.Token = login.value], dsk, login.token, login.sent,
                     "verification code is required")
    ELSE IF verify.err # NoError
    THEN LoginReturn([cfg EXCEPT !.Token = login.value], dsk, verify.token,
                     login.sent \o verify.sent, "verification failed: %w")
    ELSE LoggedIn(cfg, dsk, login.value, login.sent \o verify.sent, account, saveOK)

\* App.Login, part_002:11-60. login, verify and account are what the three
\* client calls return when they are made.
AppLogin(cfg, dsk, tok, identity, code, login, verify, account, saveOK) ==
    IF identity = <<>>
    THEN LoginReturn(cfg, dsk, tok, <<>>, "email or phone number is required")
    ELSE IF login.err # NoError
    THEN LoginReturn(cfg, dsk, login.token, login.sent, "login failed: %w")
    ELSE IF code = <<>>
    THEN LoginReturn(cfg, dsk, login.token, login.sent, "verification code is required")
    ELSE IF verify.err # NoError
    THEN LoginReturn(cfg, dsk, verify.token, login.sent \o verify.sent,
                     "verification failed: %w")
    ELSE LoggedIn(cfg, dsk, login.value, login.sent \o verify.sent, account, saveOK)

\* What the operator types at the two prompts.
Identities == << <<>>, <<"m", "e">> >>
VerificationCodes == << <<>>, <<"1", "2", "3">> >>

\* The outcomes a login is run against: those of a session and the answer of
\* the login endpoint.
LoginOutcomes ==
    SessionOutcomes \cup
    { k \in 1..Len(OutcomeList) :
        OutcomeList[k].status = 200 /\ OutcomeList[k].body = BodyList[10] }

\* The position of a token in TokenList.
TokenIndex(tok) == CHOOSE t \in 1..Len(TokenList) : TokenList[t] = tok

(***************************************************************************)
(* Profile membership (AddDeviceToProfile, RemoveDeviceFromProfile).       *)
(***************************************************************************)
DevicesSegment == <<"/", "d", "e", "v", "i", "c", "e", "s", "/">>

\* fmt.Sprintf("/2.2/networks/%s/devices/%s", networkID, deviceID)
DeviceURLFor(networkID, deviceID) == NetworksPrefix \o networkID \o DevicesSegment \o deviceID

NothingWritten == [done |-> FALSE, list |-> <<>>]
MembershipError(kind) == [err |-> Err(kind, 0, "", <<>>), written |-> NothingWritten, stored |-> FALSE]
MembershipWrite(list, setOK) ==
    [err |-> IF setOK THEN NoError ELSE Err("updating profile: %w", 0, "", <<>>),
     written |-> [done |-> TRUE, list |-> list],
     stored |-> setOK]

\* The resolution steps the two commands share: EnsureNetwork, findProfileID,
\* findDeviceID, GetProfileDetails.
ResolutionError(net, prof, dev, details) ==
    IF net.err # NoError THEN net.err
    ELSE IF ~prof.found THEN Err(prof.err.msg, 0, "", prof.err.query)
    ELSE IF ~dev.found THEN Err(dev.err.msg, 0, "", dev.err.query)
    ELSE IF ~details.ok THEN Err("getting profile: %w", 0, "", <<>>)
    ELSE NoError

\* App.AddDeviceToProfile, given what EnsureNetwork (net), findProfileID
\* (prof), findDeviceID (dev) and GetProfileDetails (details) return and
\* whether SetProfileDevices succeeds.
\* Variant: the write carries the added device alone.
AddDeviceToProfileAlone(net, prof, dev, details, setOK) ==
    IF ResolutionError(net, prof, dev, details) # NoError
    THEN [err |-> ResolutionError(net, prof, dev, details), written |-> NothingWritten,
          stored |-> FALSE]
    ELSE IF \E k \in 1..Len(details.Devices) :
                details.Devices[k] = DeviceURLFor(net.value, dev.id)
    THEN MembershipError("device %s is already in profile %s")
    ELSE MembershipWrite(<<DeviceURLFor(net.value, dev.id)>>, setOK)

AddDeviceToProfile(net, prof, dev, details, setOK) ==
    IF ResolutionError(net, prof, dev, details) # NoError
    THEN [err |-> ResolutionError(net, prof, dev, details), written |-> NothingWritten,
          stored |-> FALSE]
    ELSE IF \E k \in 1..Len(details.Devices) :
                details.Devices[k] = DeviceURLFor(net.value, dev.id)
    THEN MembershipError("device %s is already in profile %s")
    ELSE MembershipWrite(details.Devices \o <<DeviceURLFor(net.value, dev.id)>>, setOK)

\* The loop of RemoveDeviceFromProfile: the URLs other than deviceURL, in order.
RECURSIVE Without(_, _)
Without(urls, deviceURL) ==
    IF urls = <<>> THEN <<>>
    ELSE IF Head(urls) = deviceURL THEN Without(Tail(urls), deviceURL)
    ELSE <<Head(urls)>> \o Without(Tail(urls), deviceURL)

\* App.RemoveDeviceFromProfile, with the same inputs.
RemoveDeviceFromProfile(net, prof, dev, details, setOK) ==
    IF ResolutionError(net, prof, dev, details) # NoError
    THEN [err |-> ResolutionError(net, prof, dev, details), written |-> NothingWritten,
          stored |-> FALSE]
    ELSE IF \A k \in 1..Len(details.Devices) :
                details.Devices[k] # DeviceURLFor(net.value, dev.id)
    THEN MembershipError("device %s is not in profile %s")
    ELSE MembershipWrite(Without(details.Devices, DeviceURLFor(net.value, dev.id)), setOK)

HomeNetworkID == <<"1", "2", "3", "4", "5">>
HomeDevices == NetworksPrefix \o HomeNetworkID \o DevicesSegment
HomeProfiles == NetworksPrefix \o HomeNetworkID \o <<"/", "p", "r", "o", "f", "i", "l", "e", "s", "/">>

\* The devices and profiles of the network, as the fixtures of the tests
\* list them.
MembershipDevices ==
    << [BaseDevice(1) EXCEPT !.URL = HomeDevices \o <<"a", "a", "b", "b">>,
          !.MAC = <<"A", "A", ":", "B", "B">>, !.Hostname = <<"p", "c">>],
       [BaseDevice(2) EXCEPT !.URL = HomeDevices \o <<"e", "e", "f", "f">>,
          !.MAC = <<"E", "E", ":", "F", "F">>, !.Nickname = <<"t", "v">>],
       [BaseDevice(3) EXCEPT !.URL = HomeDevices \o <<"c", "0", "c", "0">>,
          !.MAC = <<"C", "0", ":", "C", "0">>, !.Hostname = <<"n", "a", "s">>] >>

MembershipProfiles ==
    << [URL |-> HomeProfiles \o <<"p", "r", "o", "f", "1">>, Name |-> <<"A", "d", "u", "l", "t", "s">>],
       [URL |-> HomeProfiles \o <<"p", "r", "o", "f", "2">>, Name |-> KidsName] >>

\* Ordered member lists of up to two of the devices.
MemberLists ==
    {<<>>}
    \cup { <<MembershipDevices[i].URL>> : i \in 1..Len(MembershipDevices) }
    \cup { <<MembershipDevices[i].URL, MembershipDevices[j].URL>> :
             i \in 1..Len(MembershipDevices), j \in 1..Len(MembershipDevices) }

\* What the operator types for device d: its MAC, its name, its ID.
DeviceQueriesFor(d) ==
    { MembershipDevices[d].MAC, DisplayName(MembershipDevices[d]),
      TrailingSegment(MembershipDevices[d].URL) }

ProfileQueries == { <<"a", "d", "u", "l", "t", "s">>, <<"p", "r", "o", "f", "1">> }

Targets ==
    { [d |-> d, deviceQuery |-> dq, profileQuery |-> pq] :
        d \in 1..Len(MembershipDevices),
        dq \in UNION { DeviceQueriesFor(e) : e \in 1..Len(MembershipDevices) },
        pq \in ProfileQueries }

(***************************************************************************)
(* Resolve-then-update commands                                            *)
(***************************************************************************)
\* What a command returns and the mutating calls it issued on the way.
NoUpdate(msg) == [err |-> msg, calls |-> <<>>]
Update(op, id, ok, msg) ==
    [err |-> IF ok THEN "" ELSE msg, calls |-> <<[op |-> op, target |-> id]>>]

\* Variant: the mutating call goes out whatever the resolver returned.
ResolveThenUpdateAnyway(op, msg, netOK, found, ok) ==
    IF ~netOK THEN NoUpdate("not logged in")
    ELSE Update(op, found.id, ok, msg)

\* devices.go:522-536, the shape PauseDevice, BlockDevice, RenameDevice,
\* PauseProfile and RemoveReservation share: EnsureNetwork, find*ID, one call.
ResolveThenUpdate(op, msg, netOK, found, ok) ==
    IF ~netOK THEN NoUpdate("not logged in")
    ELSE IF ~found.found THEN NoUpdate(found.err.msg)
    ELSE Update(op, found.id, ok, msg)

\* devices.go:522-545
PauseDevice(netOK, found, ok) ==
    ResolveThenUpdate("PauseDevice", "updating device: %w", netOK, found, ok)

\* devices.go:547-570
BlockDevice(netOK, found, ok) ==
    ResolveThenUpdate("BlockDevice", "updating device: %w", netOK, found, ok)

\* devices.go:572-590
RenameDevice(netOK, found, ok) ==
    ResolveThenUpdate("SetDeviceNickname", "updating device: %w", netOK, found, ok)

\* profiles.go:105-127
PauseProfile(netOK, found, ok) ==
    ResolveThenUpdate("PauseProfile", "updating profile: %w", netOK, found, ok)

\* reservations.go:86-103
RemoveReservation(netOK, found, ok) ==
    ResolveThenUpdate("DeleteReservation", "deleting reservation: %w", netOK, found, ok)

\* part_004:160-192: the listing is fetched once more before the resolution.
RebootEero(netOK, eerosOK, found, ok) ==
    IF netOK /\ ~eerosOK THEN NoUpdate("getting eeros: %w")
    ELSE ResolveThenUpdate("RebootEero", "rebooting eero: %w", netOK, found, ok)

(***************************************************************************)
(* Command dispatch: Devices, Profiles, Eeros, Guest, Reservations         *)
(***************************************************************************)
\* What a dispatcher returns or hands on: an error of its own, or the handler
\* it calls and the arguments it passes.
NoRouteError == [kind |-> "nil", text |-> "", arg |-> <<>>]
Usage(text) ==
    [err |-> [kind |-> "usage", text |-> text, arg |-> <<>>], handler |-> "none", hargs |-> <<>>]
Unknown(text, word) ==
    [err |-> [kind |-> "unknown", text |-> text, arg |-> word.val], handler |-> "none",
     hargs |-> <<>>]
Handler(name, hargs) == [err |-> NoRouteError, handler |-> name, hargs |-> hargs]

\* strings.Join(words[i:], " ")
RECURSIVE JoinFrom(_, _)
JoinFrom(words, i) ==
    IF i > Len(words) THEN <<>>
    ELSE IF i = Len(words) THEN words[i].val
    ELSE words[i].val \o <<" ">> \o JoinFrom(words, i + 1)

\* devices.go:64-99: the dispatch of Devices on the words the flag loop left.
DevicesSwitch(r) ==
    IF Len(r) = 0 THEN Handler("ListDevices", <<>>)
    ELSE CASE r[1].name = "monitor" -> Handler("MonitorDevices", <<>>)
           [] r[1].name = "pause" ->
                IF Len(r) < 2 THEN Usage("usage: devices pause <device-id>")
                ELSE Handler("PauseDevice", <<r[2].val>>)
           [] r[1].name = "unpause" ->
                IF Len(r) < 2 THEN Usage("usage: devices unpause <device-id>")
                ELSE Handler("PauseDevice", <<r[2].val>>)
           [] r[1].name = "block" ->
                IF Len(r) < 2 THEN Usage("usage: devices block <device-id>")
                ELSE Handler("BlockDevice", <<r[2].val>>)
           [] r[1].name = "unblock" ->
                IF Len(r) < 2 THEN Usage("usage: devices unblock <device-id>")
                ELSE Handler("BlockDevice", <<r[2].val>>)
           [] r[1].name = "rename" ->
                IF Len(r) < 3 THEN Usage("usage: devices rename <device-id> <name>")
                ELSE Handler("RenameDevice", <<r[2].val, JoinFrom(r, 3)>>)
           [] OTHER -> Unknown("unknown devices subcommand: %s", r[1])

\* devices.go:26-99
Devices(a) == DevicesSwitch(DeviceArgs(a).rest)

\* part_003:13-48
Profiles(a) ==
    IF Len(a) = 0 THEN Handler("ListProfiles", <<>>)
    ELSE CASE a[1].name = "inspect" ->
                IF Len(a) < 2 THEN Usage("usage: profiles inspect <profile>")
                ELSE Handler("InspectProfile", <<a[2].val>>)
           [] a[1].name = "pause" ->
                IF Len(a) < 2 THEN Usage("usage: profiles pause <profile-id>")
                ELSE Handler("PauseProfile", <<a[2].val>>)
           [] a[1].name = "unpause" ->
                IF Len(a) < 2 THEN Usage("usage: profiles unpause <profile-id>")
                ELSE Handler("PauseProfile", <<a[2].val>>)
           [] a[1].name = "add" ->
                IF Len(a) < 3 THEN Usage("usage: profiles add <profile> <device>")
                ELSE Handler("AddDeviceToProfile", <<a[2].val, a[3].val>>)
           [] a[1].name = "remove" ->
                IF Len(a) < 3 THEN Usage("usage: profiles remove <profile> <device>")
                ELSE Handler("RemoveDeviceFromProfile", <<a[2].val, a[3].val>>)
           [] OTHER -> Unknown("unknown profiles subcommand: %s", a[1])

\* part_004:13-35
Eeros(a) ==
    IF Len(a) = 0 THEN Handler("ListEeros", <<>>)
    ELSE CASE a[1].name = "list" -> Handler("ListEeros", <<>>)
           [] a[1].name = "inspect" ->
                IF Len(a) < 2 THEN Usage("usage: eeros inspect <eero>")
                ELSE Handler("InspectEero", <<a[2].val>>)
           [] a[1].name = "reboot" ->
                IF Len(a) < 2 THEN Usage("usage: eeros reboot <eero>")
                ELSE Handler("RebootEero", <<a[2].val>>)
           [] OTHER -> Unknown("unknown eeros subcommand: %s", a[1])

\* Variant: the password subcommand passes on without counting its arguments.
GuestUncounted(a) ==
    IF Len(a) = 0 THEN Handler("GuestStatus", <<>>)
    ELSE CASE a[1].name = "enable" -> Handler("GuestEnable", <<>>)
           [] a[1].name = "disable" -> Handler("GuestEnable", <<>>)
           [] a[1].name = "password" -> Handler("GuestPassword", <<JoinFrom(a, 2)>>)
           [] OTHER -> Unknown("unknown guest subcommand: %s", a[1])

\* guest.go:8-27
Guest(a) ==
    IF Len(a) = 0 THEN Handler("GuestStatus", <<>>)
    ELSE CASE a[1].name = "enable" -> Handler("GuestEnable", <<>>)
           [] a[1].name = "disable" -> Handler("GuestEnable", <<>>)
           [] a[1].name = "password" ->
                IF Len(a) < 2 THEN Usage("usage: guest password <new-password>")
                ELSE Handler("GuestPassword", <<a[2].val>>)
           [] OTHER -> Unknown("unknown guest subcommand: %s", a[1])

\* reservations.go:13-42
Reservations(a) ==
    IF Len(a) = 0 THEN Handler("ListReservations", <<>>)
    ELSE CASE a[1].name = "add" ->
                IF Len(a) < 3 THEN Usage("usage: reservations add <mac> <ip> [description]")
                ELSE Handler("AddReservation", <<a[2].val, a[3].val, JoinFrom(a, 4)>>)
           [] a[1].name = "remove" ->
                IF Len(a) < 2 THEN Usage("usage: reservations remove <id|mac|ip>")
                ELSE Handler("RemoveReservation", <<a[2].val>>)
           [] a[1].name = "inspect" ->
                IF Len(a) < 2 THEN Usage("usage: reservations inspect <id|mac|ip>")
                ELSE Handler("InspectReservation", <<a[2].val>>)
           [] OTHER -> Unknown("unknown reservations subcommand: %s", a[1])

\* The Resource Client calls a handler issues after EnsureNetwork, in order,
\* when none of them fails.
HandlerCalls(handler) ==
    CASE handler = "ListDevices" -> { <<"GetDevices">>, <<"GetDevices", "GetProfiles">> }
      [] handler = "MonitorDevices" -> { <<"GetDevices">>, <<"GetProfiles", "GetDevices">> }
      [] handler = "PauseDevice" -> { <<"GetDevices", "PauseDevice">> }
      [] handler = "BlockDevice" -> { <<"GetDevices", "BlockDevice">> }
      [] handler = "RenameDevice" -> { <<"GetDevices", "SetDeviceNickname">> }
      [] handler = "ListProfiles" -> { <<"GetProfiles">> }
      [] handler = "InspectProfile" -> { <<"GetProfiles", "GetProfileRaw">> }
      [] handler = "PauseProfile" -> { <<"GetProfiles", "PauseProfile">> }
      [] handler = "AddDeviceToProfile" ->
            { <<"GetProfiles", "GetDevices", "GetProfileDetails", "SetProfileDevices">> }
      [] handler = "RemoveDeviceFromProfile" ->
            { <<"GetProfiles", "GetDevices", "GetProfileDetails", "SetProfileDevices">> }
      [] handler = "ListEeros" -> { <<"GetEeros">> }
      [] handler = "InspectEero" -> { <<"GetEeros", "GetEeroRaw">> }
      [] handler = "RebootEero" -> { <<"GetEeros", "GetEeros", "RebootEero">> }
      [] handler = "GuestStatus" -> { <<"GetGuestNetwork">> }
      [] handler = "GuestEnable" -> { <<"EnableGuestNetwork">> }
      [] handler = "GuestPassword" -> { <<"SetGuestNetworkPassword">> }
      [] handler = "ListReservations" -> { <<"GetReservations">> }
      [] handler = "AddReservation" -> { <<"CreateReservation">> }
      [] handler = "RemoveReservation" -> { <<"GetReservations", "DeleteReservation">> }
      [] handler = "InspectReservation" -> { <<"GetReservations", "GetReservationRaw">> }

\* part_002:155-195: the calls of EnsureNetwork with a token held: the
\* GetAccount of ValidateToken, and a second GetAccount when the config has
\* no network ID.
EnsureNetworkCalls == { <<"GetAccount">>, <<"GetAccount", "GetAccount">> }

NotRouted == [done |-> FALSE, err |-> NoRouteError, handler |-> "none", hargs |-> <<>>, calls |-> <<>>]

\* The words of the command lines.
Word_monitor == [name |-> "monitor", val |-> <<"m", "o", "n", "i", "t", "o", "r">>]
Word_pause == [name |-> "pause", val |-> <<"p", "a", "u", "s", "e">>]
Word_unpause == [name |-> "unpause", val |-> <<"u", "n", "p", "a", "u", "s", "e">>]
Word_block == [name |-> "block", val |-> <<"b", "l", "o", "c", "k">>]
Word_unblock == [name |-> "unblock", val |-> <<"u", "n", "b", "l", "o", "c", "k">>]
Word_rename == [name |-> "rename", val |-> <<"r", "e", "n", "a", "m", "e">>]
Word_inspect == [name |-> "inspect", val |-> <<"i", "n", "s", "p", "e", "c", "t">>]
Word_add == [name |-> "add", val |-> <<"a", "d", "d">>]
Word_remove == [name |-> "remove", val |-> <<"r", "e", "m", "o", "v", "e">>]
Word_list == [name |-> "list", val |-> <<"l", "i", "s", "t">>]
Word_reboot == [name |-> "reboot", val |-> <<"r", "e", "b", "o", "o", "t">>]
Word_enable == [name |-> "enable", val |-> <<"e", "n", "a", "b", "l", "e">>]
Word_disable == [name |-> "disable", val |-> <<"d", "i", "s", "a", "b", "l", "e">>]
Word_password == [name |-> "password", val |-> <<"p", "a", "s", "s", "w", "o", "r", "d">>]
Word_wired == [name |-> "--wired", val |-> <<"-", "-", "w", "i", "r", "e", "d">>]
Word_profile == [name |-> "--profile", val |-> <<"-", "-", "p", "r", "o", "f", "i", "l", "e">>]
Word_aabb == [name |-> "", val |-> <<"a", "a", "b", "b">>]

RouteWords ==
    [devices |-> {Word_monitor, Word_pause, Word_unpause, Word_block, Word_unblock,
                  Word_rename, Word_list, Word_aabb, Word_wired, Word_profile},
     profiles |-> {Word_inspect, Word_pause, Word_unpause, Word_add, Word_remove,
                   Word_list, Word_aabb},
     eeros |-> {Word_list, Word_inspect, Word_reboot, Word_enable, Word_aabb},
     guest |-> {Word_enable, Word_disable, Word_password, Word_list, Word_aabb},
     reservations |-> {Word_add, Word_remove, Word_inspect, Word_list, Word_aabb}]

MaxWords == 3

WordLists(pool) == UNION { [1..n -> pool] : n \in 0..MaxWords }

\* The URL of the device the operator means, and whether a list holds a URL.
TargetURL == MembershipDevices[target.d].URL

Listed20(urls, url) == \E k \in 1..Len(urls) : urls[k] = url

\* No membership command is between its read and its write, and the vendor's
\* app has changed nothing.
NothingInFlight == [op |-> "none", Devices |-> <<>>]
NoExternalChange == [kind |-> "none", url |-> <<>>]

\* MonitorDevices has not been entered.
MonitorIdle ==
    /\ pc = "start"
    /\ resolvedProfileName = <<>>
    /\ interval = 0
    /\ prevState = <<>>
    /\ first = TRUE
    /\ devices = <<>>
    /\ fetch = "none"
    /\ rows = <<>>
    /\ errLines = 0
    /\ sleepFor = 0
    /\ wasFirst = FALSE
    /\ retErr = "none"

NoListRun == args = <<>> /\ listProfiles = NotFetched /\ listOut = NotListed

NoClientCall == token = <<>> /\ call = NoCall /\ wire = <<>> /\ result = NoResult

NoApp == config = EmptyConfig /\ disk = EmptyConfig

NoRoute == cmdline = [group |-> "none", words |-> <<>>] /\ routed = NotRouted

NoMembership ==
    /\ target = [d |-> 1, deviceQuery |-> <<>>, profileQuery |-> <<>>]
    /\ members = <<>>
    /\ original = <<>>
    /\ written = NothingWritten
    /\ phase = "start"
    /\ before = <<>>
    /\ inflight = NothingInFlight
    /\ external = NoExternalChange

Init ==
    /\ filters \in FilterChoices
    /\ MonitorIdle
    /\ NoResolverRun
    /\ NoListRun
    /\ NoClientCall
    /\ NoApp
    /\ NoMembership
    /\ NoRoute

\* devices.go:297-300: EnsureNetwork fails and MonitorDevices returns its error.
StartFails ==
    /\ pc = "start"
    /\ pc' = "returned"
    /\ retErr' = "EnsureNetwork"
    /\ UNCHANGED <<filters, resolvedProfileName, interval, prevState, first,
                   devices, fetch, rows, errLines, sleepFor, wasFirst>>
    /\ UNCHANGED resolverVars
    /\ UNCHANGED listVars
    /\ UNCHANGED clientVars
    /\ UNCHANGED appVars
    /\ UNCHANGED profileVars
    /\ UNCHANGED routeVars

\* devices.go:297-332: EnsureNetwork succeeds, the profile filter is resolved
\* (GetProfiles succeeds with some listing, or fails), the loop is entered.
StartLoop ==
    /\ pc = "start"
    /\ \E ok \in BOOLEAN, profiles \in ProfileListings :
          resolvedProfileName' = ResolveProfileName(filters, ok, profiles)
    /\ interval' = EffectiveInterval(filters)
    /\ prevState' = <<>>
    /\ first' = TRUE
    /\ pc' = "poll"
    /\ UNCHANGED <<filters, devices, fetch, rows, errLines, sleepFor, wasFirst, retErr>>
    /\ UNCHANGED resolverVars
    /\ UNCHANGED listVars
    /\ UNCHANGED clientVars
    /\ UNCHANGED appVars
    /\ UNCHANGED profileVars
    /\ UNCHANGED routeVars

\* Mutant of PollFail: a failed tick ends the first-poll phase.
PollFailEndsFirst ==
    /\ pc = "poll"
    /\ fetch' = "err"
    /\ errLines' = 1
    /\ devices' = <<>>
    /\ rows' = <<>>
    /\ wasFirst' = first
    /\ first' = FALSE
    /\ sleepFor' = interval
    /\ pc' = "sleep"
    /\ UNCHANGED <<filters, resolvedProfileName, interval, prevState, retErr>>
    /\ UNCHANGED resolverVars
    /\ UNCHANGED listVars
    /\ UNCHANGED clientVars
    /\ UNCHANGED appVars
    /\ UNCHANGED profileVars
    /\ UNCHANGED routeVars

\* Mutant of PollFail: the fetch error is returned instead of retried.
PollFailReturns ==
    /\ pc = "poll"
    /\ fetch' = "err"
    /\ errLines' = 1
    /\ devices' = <<>>
    /\ rows' = <<>>
    /\ wasFirst' = first
    /\ sleepFor' = 0
    /\ pc' = "returned"
    /\ retErr' = "GetDevices"
    /\ UNCHANGED <<filters, resolvedProfileName, interval, prevState, first>>
    /\ UNCHANGED resolverVars
    /\ UNCHANGED listVars
    /\ UNCHANGED clientVars
    /\ UNCHANGED appVars
    /\ UNCHANGED profileVars
    /\ UNCHANGED routeVars

\* devices.go:335-340: GetDevices fails.
PollFail ==
    /\ pc = "poll"
    /\ fetch' = "err"
    /\ errLines' = 1
    /\ devices' = <<>>
    /\ rows' = <<>>
    /\ wasFirst' = first
    /\ sleepFor' = interval
    /\ pc' = "sleep"
    /\ UNCHANGED <<filters, resolvedProfileName, interval, prevState, first, retErr>>
    /\ UNCHANGED resolverVars
    /\ UNCHANGED listVars
    /\ UNCHANGED clientVars
    /\ UNCHANGED appVars
    /\ UNCHANGED profileVars
    /\ UNCHANGED routeVars

\* devices.go:335-423: GetDevices returns a listing; it is filtered, diffed, stored.
PollOK(listing) ==
    /\ pc = "poll"
    /\ devices' = listing
    /\ LET r == MonitorLoopBody(listing, 1, filters, resolvedProfileName, first,
                                [prevState |-> prevState, rows |-> <<>>])
       IN /\ prevState' = r.prevState
          /\ rows' = r.rows
    /\ fetch' = "ok"
    /\ errLines' = 0
    /\ wasFirst' = first
    /\ first' = FALSE
    /\ sleepFor' = interval
    /\ pc' = "sleep"
    /\ UNCHANGED <<filters, resolvedProfileName, interval, retErr>>
    /\ UNCHANGED resolverVars
    /\ UNCHANGED listVars
    /\ UNCHANGED clientVars
    /\ UNCHANGED appVars
    /\ UNCHANGED profileVars
    /\ UNCHANGED routeVars

PollSucceeds == \E listing \in Listings : PollOK(listing)

\* Mutant of Wake: the loop ends after a tick in which nothing was printed.
WakeOrStop ==
    /\ pc = "sleep"
    /\ pc' = IF rows = <<>> /\ errLines = 0 /\ ~wasFirst THEN "returned" ELSE "poll"
    /\ sleepFor' = 0
    /\ fetch' = "none"
    /\ devices' = <<>>
    /\ rows' = <<>>
    /\ errLines' = 0
    /\ wasFirst' = FALSE
    /\ UNCHANGED <<filters, resolvedProfileName, interval, prevState, first, retErr>>
    /\ UNCHANGED resolverVars
    /\ UNCHANGED listVars
    /\ UNCHANGED clientVars
    /\ UNCHANGED appVars
    /\ UNCHANGED profileVars
    /\ UNCHANGED routeVars

\* devices.go:338, 423: the sleep ends and the loop polls again.
Wake ==
    /\ pc = "sleep"
    /\ pc' = "poll"
    /\ sleepFor' = 0
    /\ fetch' = "none"
    /\ devices' = <<>>
    /\ rows' = <<>>
    /\ errLines' = 0
    /\ wasFirst' = FALSE
    /\ UNCHANGED <<filters, resolvedProfileName, interval, prevState, first, retErr>>
    /\ UNCHANGED resolverVars
    /\ UNCHANGED listVars
    /\ UNCHANGED clientVars
    /\ UNCHANGED appVars
    /\ UNCHANGED profileVars
    /\ UNCHANGED routeVars

Next == StartFails \/ StartLoop \/ PollFail \/ PollSucceeds \/ Wake

Spec == Init /\ [][Next]_vars

\* The loop is sequential code: a started GetDevices returns (the HTTP client
\* has a 30 s timeout) and a started time.Sleep ends.
LiveSpec == Spec /\ WF_vars(PollFail \/ PollSucceeds) /\ WF_vars(Wake)

(***************************************************************************)
(* The resolvers as a state machine: a command calls one find*ID with the   *)
(* listing its Get* call returns and the query the operator typed.         *)
(***************************************************************************)
ResolveInit ==
    /\ filters = NoFilters
    /\ MonitorIdle
    /\ rkind \in Kinds
    /\ rlist \in ListingsOf(rkind)
    /\ rquery \in Queries
    /\ rout = NotRun
    /\ NoListRun
    /\ NoClientCall
    /\ NoApp
    /\ NoMembership
    /\ NoRoute

\* devices.go:486-519
FindDevice ==
    /\ rkind = "device" /\ ~rout.done
    /\ rout' = findDeviceID(rlist, rquery)
    /\ UNCHANGED <<rkind, rlist, rquery>>
    /\ UNCHANGED monitorVars
    /\ UNCHANGED listVars
    /\ UNCHANGED clientVars
    /\ UNCHANGED appVars
    /\ UNCHANGED profileVars
    /\ UNCHANGED routeVars

\* profiles.go:74-102
FindProfile ==
    /\ rkind = "profile" /\ ~rout.done
    /\ rout' = findProfileID(rlist, rquery)
    /\ UNCHANGED <<rkind, rlist, rquery>>
    /\ UNCHANGED monitorVars
    /\ UNCHANGED listVars
    /\ UNCHANGED clientVars
    /\ UNCHANGED appVars
    /\ UNCHANGED profileVars
    /\ UNCHANGED routeVars

\* findEeroID
FindEero ==
    /\ rkind = "eero" /\ ~rout.done
    /\ rout' = findEeroID(rlist, rquery)
    /\ UNCHANGED <<rkind, rlist, rquery>>
    /\ UNCHANGED monitorVars
    /\ UNCHANGED listVars
    /\ UNCHANGED clientVars
    /\ UNCHANGED appVars
    /\ UNCHANGED profileVars
    /\ UNCHANGED routeVars

\* reservations.go:132-160
FindReservation ==
    /\ rkind = "reservation" /\ ~rout.done
    /\ rout' = findReservationID(rlist, rquery)
    /\ UNCHANGED <<rkind, rlist, rquery>>
    /\ UNCHANGED monitorVars
    /\ UNCHANGED listVars
    /\ UNCHANGED clientVars
    /\ UNCHANGED appVars
    /\ UNCHANGED profileVars
    /\ UNCHANGED routeVars

\* The Get* call of a find*ID fails: the error is wrapped and returned.
FindFetchFails ==
    /\ rkind \in Kinds /\ ~rout.done
    /\ rout' = Failed(FetchErrMsg(rkind), <<>>)
    /\ UNCHANGED <<rkind, rlist, rquery>>
    /\ UNCHANGED monitorVars
    /\ UNCHANGED listVars
    /\ UNCHANGED clientVars
    /\ UNCHANGED appVars
    /\ UNCHANGED profileVars
    /\ UNCHANGED routeVars

ResolveNext == FindDevice \/ FindProfile \/ FindEero \/ FindReservation \/ FindFetchFails

ResolveSpec == ResolveInit /\ [][ResolveNext]_vars

(***************************************************************************)
(* api.Extract*ID as a state machine: a resource URL is drawn, the         *)
(* function of its resource kind is applied to it once.                    *)
(***************************************************************************)
\* IDs as the fixtures of the tests have them, shortened.
ExtractIDs ==
    { <<"a", "a", "b", "b">>, <<"f", "6", "a", "f">>, <<"p", "1">>,
      <<"a", "b", "c", "-", "d", "e", "f">>, <<"1", "2", "3", "4", "5">> }

AccountPrefix == <<"/", "1", "6", "6", "4", "3", "5", "6">>
ShortAccountPrefix == <<"/", "1", "2", "3">>
ProfilesSegment == <<"/", "p", "r", "o", "f", "i", "l", "e", "s", "/">>

\* The URL shapes of the fixtures and tests: client_test.go:7-56,
\* mock_test.go:289-324, and the formats the comments of client.go:344-369 name.
APIShapes(kind) ==
    CASE kind = "network" -> { NetworksPrefix \o id : id \in ExtractIDs }
      [] kind = "device" ->
            { pre \o id : pre \in { HomeDevices, AccountPrefix \o DevicesSegment,
                                     ShortAccountPrefix \o DevicesSegment, DevicePrefix },
                          id \in ExtractIDs }
      [] kind = "profile" ->
            { pre \o id : pre \in { HomeProfiles, AccountPrefix \o ProfilesSegment,
                                     ShortAccountPrefix \o ProfilesSegment, ProfilePrefix },
                          id \in ExtractIDs }

\* Inputs around the lengths the functions test: empty, one byte, 12 to 15 bytes.
ShortInputs ==
    { <<>>, <<"/">>, <<"a", "b", "c">>,
      <<"a", "a", "b", "b", "c", "c", "d", "d", "1", "1", "2", "2">>,
      <<"/", "2", ".", "2", "/", "d", "e", "v", "i", "c", "e", "s", "/">>,
      NetworksPrefix,
      NetworksPrefix \o <<"7">> }

ExtractKinds == {"network", "device", "profile"}

ExtractInit ==
    /\ filters = NoFilters
    /\ MonitorIdle
    /\ rkind \in ExtractKinds
    /\ rlist = <<>>
    /\ rquery \in APIShapes(rkind) \cup ShortInputs
    /\ rout = NotRun
    /\ NoListRun
    /\ NoClientCall
    /\ NoApp
    /\ NoMembership
    /\ NoRoute

Extracted(id) ==
    /\ ~rout.done
    /\ rout' = Found(id)
    /\ UNCHANGED <<rkind, rlist, rquery>>
    /\ UNCHANGED monitorVars
    /\ UNCHANGED listVars
    /\ UNCHANGED clientVars
    /\ UNCHANGED appVars
    /\ UNCHANGED profileVars
    /\ UNCHANGED routeVars

\* client.go:344-351
CallExtractNetworkID == rkind = "network" /\ Extracted(ExtractNetworkID(rquery))

\* client.go:353-360
CallExtractDeviceID == rkind = "device" /\ Extracted(ExtractDeviceID(rquery))

\* client.go:362-369
CallExtractProfileID == rkind = "profile" /\ Extracted(ExtractProfileID(rquery))

ExtractNext == CallExtractNetworkID \/ CallExtractDeviceID \/ CallExtractProfileID

ExtractSpec == ExtractInit /\ [][ExtractNext]_vars

(***************************************************************************)
(* The devices command as a state machine: one run of `devices [flags]`.   *)
(***************************************************************************)
ListInit ==
    /\ filters = NoFilters
    /\ MonitorIdle
    /\ NoResolverRun
    /\ args \in ListArgChoices
    /\ listProfiles = NotFetched
    /\ listOut = NotListed
    /\ NoClientCall
    /\ NoApp
    /\ NoMembership
    /\ NoRoute

\* The run is at the dispatch of Devices with no subcommand word left.
AtListDevices == pc = "start" /\ ~listOut.done /\ DeviceArgs(args).rest = <<>>

\* devices.go:66-99: a word that is no flag and no known subcommand.
DevicesUnknownSubcommand ==
    /\ pc = "start" /\ ~listOut.done
    /\ DeviceArgs(args).rest # <<>>
    /\ DeviceArgs(args).rest[1].name \notin DeviceSubcommands
    /\ filters' = DeviceArgs(args).filters
    /\ listOut' = ListError("unknown devices subcommand")
    /\ pc' = "returned"
    /\ UNCHANGED <<resolvedProfileName, interval, prevState, first, devices, fetch,
                   rows, errLines, sleepFor, wasFirst, retErr>>
    /\ UNCHANGED <<args, listProfiles>>
    /\ UNCHANGED resolverVars
    /\ UNCHANGED clientVars
    /\ UNCHANGED appVars
    /\ UNCHANGED profileVars
    /\ UNCHANGED routeVars

\* devices.go:102-106: EnsureNetwork fails.
ListEnsureFails ==
    /\ AtListDevices
    /\ filters' = DeviceArgs(args).filters
    /\ listOut' = ListError("ensure network")
    /\ pc' = "returned"
    /\ UNCHANGED <<resolvedProfileName, interval, prevState, first, devices, fetch,
                   rows, errLines, sleepFor, wasFirst, retErr>>
    /\ UNCHANGED <<args, listProfiles>>
    /\ UNCHANGED resolverVars
    /\ UNCHANGED clientVars
    /\ UNCHANGED appVars
    /\ UNCHANGED profileVars
    /\ UNCHANGED routeVars

\* devices.go:108-111: GetDevices fails.
ListFetchFails ==
    /\ AtListDevices
    /\ filters' = DeviceArgs(args).filters
    /\ fetch' = "err"
    /\ listOut' = ListError("getting devices")
    /\ pc' = "returned"
    /\ UNCHANGED <<resolvedProfileName, interval, prevState, first, devices,
                   rows, errLines, sleepFor, wasFirst, retErr>>
    /\ UNCHANGED <<args, listProfiles>>
    /\ UNCHANGED resolverVars
    /\ UNCHANGED clientVars
    /\ UNCHANGED appVars
    /\ UNCHANGED profileVars
    /\ UNCHANGED routeVars

\* devices.go:108-262: the listing is fetched, the --profile filter resolved
\* (GetProfiles is called only when it is set), the table printed.
ListOK(listing, got) ==
    /\ AtListDevices
    /\ devices' = listing
    /\ fetch' = "ok"
    /\ LET f == DeviceArgs(args).filters IN
       /\ got.fetched = (f.Profile # <<>>)
       /\ filters' = f
       /\ listProfiles' = got
       /\ listOut' = ListDevicesResult(f, listing, got)
    /\ pc' = "returned"
    /\ UNCHANGED <<resolvedProfileName, interval, prevState, first,
                   rows, errLines, sleepFor, wasFirst, retErr>>
    /\ UNCHANGED args
    /\ UNCHANGED resolverVars
    /\ UNCHANGED clientVars
    /\ UNCHANGED appVars
    /\ UNCHANGED profileVars
    /\ UNCHANGED routeVars

ListSucceeds ==
    \E listing \in ListListings, got \in ListProfileFetches \cup {NotFetched} :
        ListOK(listing, got)

ListNext == DevicesUnknownSubcommand \/ ListEnsureFails \/ ListFetchFails \/ ListSucceeds

ListSpec == ListInit /\ [][ListNext]_vars

(***************************************************************************)
(* The API client as a state machine: a program holds one Client and calls *)
(* its methods one after another; the server answers each exchange with    *)
(* one of the outcomes of OutcomeList.                                     *)
(***************************************************************************)
ClientInit ==
    /\ filters = NoFilters
    /\ MonitorIdle
    /\ NoResolverRun
    /\ NoListRun
    /\ token \in {TokenList[k] : k \in 1..Len(TokenList)}
    /\ call = NoCall
    /\ wire = <<>>
    /\ result = NoResult
    /\ NoApp
    /\ NoMembership
    /\ NoRoute

\* What a method call leaves behind: the token, the exchanges, the result.
Called(op, arg, r) ==
    /\ call' = [op |-> op, arg |-> arg, held |-> token]
    /\ token' = r.token
    /\ wire' = r.sent
    /\ result' = [value |-> r.value, err |-> r.err]
    /\ UNCHANGED monitorVars
    /\ UNCHANGED resolverVars
    /\ UNCHANGED listVars
    /\ UNCHANGED appVars
    /\ UNCHANGED profileVars
    /\ UNCHANGED routeVars

\* What SetToken leaves behind for each token.
SetTokenResults ==
    [k \in 1..Len(TokenList) |->
        [token |-> TokenList[k], sent |-> <<>>, value |-> <<>>, err |-> NoError]]

\* client.go:35-37
CallSetToken ==
    \E k \in 1..Len(TokenList) : Called("SetToken", TokenList[k], SetTokenResults[k])

\* client.go:40-81, as a method without a request body calls it (Reboot,
\* client.go:328-332).
CallRequest ==
    \E k \in 1..Len(OutcomeList) :
        LET r == request(token, "POST", "/2.2/networks/12345/reboot", NoBody, OutcomeList[k])
        IN Called("request", <<>>,
                  [token |-> token, sent |-> r.sent, value |-> r.bytes, err |-> r.err])

\* client.go:107-125
CallLogin ==
    \E k \in 1..Len(OutcomeList) :
        Called("Login", <<>>, Login(token, <<"m", "e">>, OutcomeList[k]))

\* What LoginVerify returns for each held token, token argument and outcome.
LoginVerifyResults ==
    [h \in 1..Len(TokenList) |->
        [t \in 1..Len(TokenList) |->
            [k \in 1..Len(OutcomeList) |->
                LoginVerify(TokenList[h], TokenList[t], <<"1", "2", "3">>, OutcomeList[k])]]]

\* client.go:128-133
CallLoginVerify ==
    \E h \in 1..Len(TokenList), t \in 1..Len(TokenList), k \in 1..Len(OutcomeList) :
        /\ token = TokenList[h]
        /\ Called("LoginVerify", TokenList[t], LoginVerifyResults[h][t][k])

\* client.go:151-168
CallGetAccount ==
    \E k \in 1..Len(OutcomeList) :
        Called("GetAccount", <<>>, GetAccount(token, OutcomeList[k]))

\* client.go:336-342
CallValidateToken ==
    \E k \in 1..Len(OutcomeList) :
        Called("ValidateToken", <<>>, ValidateToken(token, OutcomeList[k]))

ClientNext ==
    \/ CallSetToken
    \/ CallRequest
    \/ CallLogin
    \/ CallLoginVerify
    \/ CallGetAccount
    \/ CallValidateToken

ClientSpec == ClientInit /\ [][ClientNext]_vars

(***************************************************************************)
(* The session as a state machine: NewApp loads the config and builds the  *)
(* client from its token; commands then call EnsureAuth and EnsureNetwork. *)
(***************************************************************************)
SessionInit ==
    /\ filters = NoFilters
    /\ MonitorIdle
    /\ NoResolverRun
    /\ NoListRun
    /\ disk \in StoredConfigs
    /\ config = disk
    /\ token = disk.Token
    /\ call = NoCall
    /\ wire = <<>>
    /\ result = NoResult
    /\ NoMembership
    /\ NoRoute

CallEnsureAuth ==
    \E k \in SessionOutcomes :
        LET r == EnsureAuth(config, token, OutcomeList[k]) IN
        /\ call' = [op |-> "EnsureAuth", arg |-> config.NetworkID, held |-> token]
        /\ wire' = r.sent
        /\ result' = [value |-> <<>>, err |-> r.err]
        /\ UNCHANGED <<token, config, disk>>
        /\ UNCHANGED monitorVars
        /\ UNCHANGED resolverVars
        /\ UNCHANGED listVars
        /\ UNCHANGED profileVars
        /\ UNCHANGED routeVars

\* What an EnsureNetwork call leaves behind.
EnsuredNetwork(r) ==
    /\ call' = [op |-> "EnsureNetwork", arg |-> config.NetworkID, held |-> token]
    /\ wire' = r.sent
    /\ result' = [value |-> r.value, err |-> r.err]
    /\ config' = r.config
    /\ disk' = r.disk
    /\ UNCHANGED token
    /\ UNCHANGED monitorVars
    /\ UNCHANGED resolverVars
    /\ UNCHANGED listVars
    /\ UNCHANGED profileVars
    /\ UNCHANGED routeVars

CallEnsureNetwork ==
    \E k1 \in SessionOutcomes, k2 \in SessionOutcomes, saveOK \in BOOLEAN :
        EnsuredNetwork(EnsureNetwork(config, disk, EnsureAuth(config, token, OutcomeList[k1]),
                                     GetAccount(token, OutcomeList[k2]), saveOK))

SessionNext == CallEnsureAuth \/ CallEnsureNetwork

SessionSpec == SessionInit /\ [][SessionNext]_vars

(***************************************************************************)
(* The login command as a state machine: a session, then one `login`.      *)
(***************************************************************************)
LoginInit == SessionInit

\* What the client calls of App.Login return, for each token held, input and
\* outcome.
LoginResults ==
    [h \in 1..Len(TokenList) |->
        [k \in 1..Len(OutcomeList) |-> Login(TokenList[h], Identities[2], OutcomeList[k])]]

AccountResults ==
    [t \in 1..Len(TokenList) |->
        [k \in 1..Len(OutcomeList) |-> GetAccount(TokenList[t], OutcomeList[k])]]

\* What a login leaves behind.
LoggedInOrNot(identity, code, r) ==
    /\ call' = [op |-> "App.Login",
                arg |-> [identity |-> identity, code |-> code, config |-> config,
                         disk |-> disk],
                held |-> token]
    /\ token' = r.token
    /\ wire' = r.sent
    /\ result' = [value |-> r.saves, err |-> r.err]
    /\ config' = r.config
    /\ disk' = r.disk
    /\ UNCHANGED monitorVars
    /\ UNCHANGED resolverVars
    /\ UNCHANGED listVars
    /\ UNCHANGED profileVars
    /\ UNCHANGED routeVars

\* part_002:11-60
CallAppLogin ==
    \E h \in 1..Len(TokenList), i \in 1..Len(Identities), c \in 1..Len(VerificationCodes),
       k1 \in LoginOutcomes, k2 \in LoginOutcomes, k3 \in LoginOutcomes,
       saveOK \in BOOLEAN :
        /\ call = NoCall
        /\ token = TokenList[h]
        /\ LoggedInOrNot(Identities[i], VerificationCodes[c],
               AppLogin(config, disk, token, Identities[i], VerificationCodes[c],
                        LoginResults[h][k1],
                        LoginVerifyResults[h][TokenIndex(LoginResults[h][k1].value)][k2],
                        AccountResults[TokenIndex(LoginResults[h][k1].value)][k3],
                        saveOK))

LoginNext == CallAppLogin

LoginSpec == LoginInit /\ [][LoginNext]_vars

(***************************************************************************)
(* Profile membership as a state machine: the server keeps the member list *)
(* of the profile; the operator adds and removes one device.               *)
(***************************************************************************)
ProfileInit ==
    /\ filters = NoFilters
    /\ MonitorIdle
    /\ NoResolverRun
    /\ NoListRun
    /\ NoClientCall
    /\ NoApp
    /\ target \in {t \in Targets : t.deviceQuery \in DeviceQueriesFor(t.d)}
    /\ members \in MemberLists
    /\ original = members
    /\ written = NothingWritten
    /\ phase = "start"
    /\ before = members
    /\ inflight = NothingInFlight
    /\ external = NoExternalChange
    /\ NoRoute

\* What EnsureNetwork and GetProfileDetails give a command.
NetworkFound == [value |-> HomeNetworkID, err |-> NoError]
NetworkMissing == [value |-> <<>>, err |-> Err("not logged in", 0, "", <<>>)]
NetworkResult(ok) == IF ok THEN NetworkFound ELSE NetworkMissing

DetailsResult(ok) ==
    IF ok THEN [ok |-> TRUE, Devices |-> members] ELSE [ok |-> FALSE, Devices |-> <<>>]

\* What a membership command leaves behind; a successful write is what the
\* server returns from then on.
Membership(op, r) ==
    /\ call' = [op |-> op, arg |-> target.deviceQuery, held |-> token]
    /\ result' = [value |-> <<>>, err |-> r.err]
    /\ written' = r.written
    /\ members' = IF r.stored THEN r.written.list ELSE members
    /\ before' = members
    /\ phase' = IF r.err # NoError THEN phase
                ELSE IF op = "AddDeviceToProfile" /\ phase = "start" THEN "added"
                ELSE IF op = "RemoveDeviceFromProfile" /\ phase = "added" THEN "removed"
                ELSE "other"
    /\ UNCHANGED <<target, original, inflight, external>>
    /\ UNCHANGED <<token, wire>>
    /\ UNCHANGED monitorVars
    /\ UNCHANGED resolverVars
    /\ UNCHANGED listVars
    /\ UNCHANGED appVars
    /\ UNCHANGED routeVars

CallAddDeviceToProfile ==
    \E netOK \in BOOLEAN, detailsOK \in BOOLEAN, setOK \in BOOLEAN :
        Membership("AddDeviceToProfile",
                   AddDeviceToProfile(NetworkResult(netOK),
                                      findProfileID(MembershipProfiles, target.profileQuery),
                                      findDeviceID(MembershipDevices, target.deviceQuery),
                                      DetailsResult(detailsOK), setOK))

CallRemoveDeviceFromProfile ==
    \E netOK \in BOOLEAN, detailsOK \in BOOLEAN, setOK \in BOOLEAN :
        Membership("RemoveDeviceFromProfile",
                   RemoveDeviceFromProfile(NetworkResult(netOK),
                                           findProfileID(MembershipProfiles, target.profileQuery),
                                           findDeviceID(MembershipDevices, target.deviceQuery),
                                           DetailsResult(detailsOK), setOK))

ProfileNext == CallAddDeviceToProfile \/ CallRemoveDeviceFromProfile

ProfileSpec == ProfileInit /\ [][ProfileNext]_vars

(***************************************************************************)
(* The same commands beside the vendor's app: a command reads the member   *)
(* list with GetProfileDetails and writes it back with SetProfileDevices,  *)
(* two requests, and the app may change the profile between them.          *)
(***************************************************************************)
RaceInit == ProfileInit

\* part_003:175-194 and 221-240: everything up to the GetProfileDetails read.
\* A command that fails before it has the list returns its error.
ReadMembership(op) ==
    /\ inflight = NothingInFlight
    /\ \E netOK \in BOOLEAN, detailsOK \in BOOLEAN :
         LET e == ResolutionError(NetworkResult(netOK),
                                  findProfileID(MembershipProfiles, target.profileQuery),
                                  findDeviceID(MembershipDevices, target.deviceQuery),
                                  DetailsResult(detailsOK))
         IN  /\ call' = [op |-> op, arg |-> target.deviceQuery, held |-> token]
             /\ result' = [value |-> <<>>, err |-> e]
             /\ inflight' = IF e = NoError THEN [op |-> op, Devices |-> members]
                             ELSE NothingInFlight
    /\ written' = NothingWritten
    /\ before' = members
    /\ external' = NoExternalChange
    /\ UNCHANGED <<target, members, original, phase>>
    /\ UNCHANGED <<token, wire>>
    /\ UNCHANGED monitorVars
    /\ UNCHANGED resolverVars
    /\ UNCHANGED listVars
    /\ UNCHANGED appVars
    /\ UNCHANGED routeVars

\* The vendor's app changes the profile while the command is in flight.
ExternalChange(kind, list, url) ==
    /\ inflight # NothingInFlight
    /\ external = NoExternalChange
    /\ url # TargetURL
    /\ members' = list
    /\ external' = [kind |-> kind, url |-> url]
    /\ UNCHANGED <<target, original, written, phase, before, inflight>>
    /\ UNCHANGED clientVars
    /\ UNCHANGED monitorVars
    /\ UNCHANGED resolverVars
    /\ UNCHANGED listVars
    /\ UNCHANGED appVars
    /\ UNCHANGED routeVars

ExternalAdd ==
    \E k \in 1..Len(MembershipDevices) :
        /\ Len(members) < Len(MembershipDevices)
        /\ ~Listed20(members, MembershipDevices[k].URL)
        /\ ExternalChange("add", members \o <<MembershipDevices[k].URL>>,
                          MembershipDevices[k].URL)

ExternalRemove ==
    \E k \in 1..Len(MembershipDevices) :
        /\ Listed20(members, MembershipDevices[k].URL)
        /\ ExternalChange("remove", Without(members, MembershipDevices[k].URL),
                          MembershipDevices[k].URL)

\* part_003:196-216 and 242-263: the rest of the command, on the list it read.
WriteMembership ==
    /\ inflight # NothingInFlight
    /\ \E setOK \in BOOLEAN :
         LET net == NetworkFound
             prof == findProfileID(MembershipProfiles, target.profileQuery)
             dev == findDeviceID(MembershipDevices, target.deviceQuery)
             details == [ok |-> TRUE, Devices |-> inflight.Devices]
             r == IF inflight.op = "AddDeviceToProfile"
                  THEN AddDeviceToProfile(net, prof, dev, details, setOK)
                  ELSE RemoveDeviceFromProfile(net, prof, dev, details, setOK)
         IN  /\ result' = [value |-> <<>>, err |-> r.err]
             /\ written' = r.written
             /\ members' = IF r.stored THEN r.written.list ELSE members
    /\ inflight' = NothingInFlight
    /\ phase' = "other"
    /\ UNCHANGED <<target, original, before, external>>
    /\ UNCHANGED <<token, call, wire>>
    /\ UNCHANGED monitorVars
    /\ UNCHANGED resolverVars
    /\ UNCHANGED listVars
    /\ UNCHANGED appVars
    /\ UNCHANGED routeVars

RaceNext ==
    \/ ReadMembership("AddDeviceToProfile")
    \/ ReadMembership("RemoveDeviceFromProfile")
    \/ ExternalAdd
    \/ ExternalRemove
    \/ WriteMembership

RaceSpec == RaceInit /\ [][RaceNext]_vars

(***************************************************************************)
(* Command dispatch as a state machine: one command line, dispatched once. *)
(***************************************************************************)
RouteInit ==
    /\ filters = NoFilters
    /\ MonitorIdle
    /\ NoResolverRun
    /\ NoListRun
    /\ NoClientCall
    /\ NoApp
    /\ NoMembership
    /\ \E g \in DOMAIN RouteWords :
         /\ cmdline \in { [group |-> g, words |-> w] : w \in WordLists(RouteWords[g]) }
    /\ routed = NotRouted

\* The dispatcher returns its own error, or runs the handler: EnsureNetwork
\* fails before any call when no token is held, and otherwise the calls go
\* out in order up to the first that fails.
Dispatched(r) ==
    /\ ~routed.done
    /\ IF r.handler = "none"
       THEN routed' = [done |-> TRUE, err |-> r.err, handler |-> "none", hargs |-> <<>>,
                       calls |-> <<>>]
       ELSE \E ensure \in EnsureNetworkCalls, after \in HandlerCalls(r.handler),
               failed \in BOOLEAN :
              \E n \in (IF failed THEN 0 ELSE Len(ensure \o after))..Len(ensure \o after) :
                routed' = [done |-> TRUE,
                           err |-> IF failed
                                   THEN [kind |-> "call failed", text |-> "", arg |-> <<>>]
                                   ELSE NoRouteError,
                           handler |-> r.handler, hargs |-> r.hargs,
                           calls |-> SubSeq(ensure \o after, 1, n)]
    /\ UNCHANGED cmdline
    /\ UNCHANGED monitorVars
    /\ UNCHANGED resolverVars
    /\ UNCHANGED listVars
    /\ UNCHANGED clientVars
    /\ UNCHANGED appVars
    /\ UNCHANGED profileVars

CallDevices == cmdline.group = "devices" /\ Dispatched(Devices(cmdline.words))
CallProfiles == cmdline.group = "profiles" /\ Dispatched(Profiles(cmdline.words))
CallEeros == cmdline.group = "eeros" /\ Dispatched(Eeros(cmdline.words))
CallGuest == cmdline.group = "guest" /\ Dispatched(Guest(cmdline.words))
CallReservations == cmdline.group = "reservations" /\ Dispatched(Reservations(cmdline.words))

RouteNext == CallDevices \/ CallProfiles \/ CallEeros \/ CallGuest \/ CallReservations

RouteSpec == RouteInit /\ [][RouteNext]_vars

(***************************************************************************)
(* Resolve-then-update commands as a state machine: a listing and a query  *)
(* are drawn, one command is run with them.                                *)
(***************************************************************************)
UpdateInit == ResolveInit

\* What find*ID returns to the command: its result on the listing, or the
\* error of its Get* call.
Resolution(fetchOK) ==
    IF ~fetchOK THEN Failed(FetchErrMsg(rkind), <<>>)
    ELSE CASE rkind = "device" -> findDeviceID(rlist, rquery)
           [] rkind = "profile" -> findProfileID(rlist, rquery)
           [] rkind = "eero" -> findEeroID(rlist, rquery)
           [] rkind = "reservation" -> findReservationID(rlist, rquery)

\* What a command leaves behind: the resolution it got, if it asked for one,
\* its error, the mutating calls it issued.
Updated(handler, asked, found, r) ==
    /\ ~routed.done
    /\ rout' = IF asked THEN found ELSE NotRun
    /\ routed' = [done |-> TRUE, err |-> [kind |-> r.err, text |-> "", arg |-> <<>>],
                  handler |-> handler, hargs |-> <<rquery>>, calls |-> r.calls]
    /\ UNCHANGED <<rkind, rlist, rquery, cmdline>>
    /\ UNCHANGED monitorVars
    /\ UNCHANGED listVars
    /\ UNCHANGED clientVars
    /\ UNCHANGED appVars
    /\ UNCHANGED profileVars

CallPauseDevice ==
    /\ rkind = "device"
    /\ \E netOK \in BOOLEAN, fetchOK \in BOOLEAN, ok \in BOOLEAN :
         Updated("PauseDevice", netOK, Resolution(fetchOK),
                 PauseDevice(netOK, Resolution(fetchOK), ok))

CallBlockDevice ==
    /\ rkind = "device"
    /\ \E netOK \in BOOLEAN, fetchOK \in BOOLEAN, ok \in BOOLEAN :
         Updated("BlockDevice", netOK, Resolution(fetchOK),
                 BlockDevice(netOK, Resolution(fetchOK), ok))

CallRenameDevice ==
    /\ rkind = "device"
    /\ \E netOK \in BOOLEAN, fetchOK \in BOOLEAN, ok \in BOOLEAN :
         Updated("RenameDevice", netOK, Resolution(fetchOK),
                 RenameDevice(netOK, Resolution(fetchOK), ok))

CallPauseProfile ==
    /\ rkind = "profile"
    /\ \E netOK \in BOOLEAN, fetchOK \in BOOLEAN, ok \in BOOLEAN :
         Updated("PauseProfile", netOK, Resolution(fetchOK),
                 PauseProfile(netOK, Resolution(fetchOK), ok))

CallRemoveReservation ==
    /\ rkind = "reservation"
    /\ \E netOK \in BOOLEAN, fetchOK \in BOOLEAN, ok \in BOOLEAN :
         Updated("RemoveReservation", netOK, Resolution(fetchOK),
                 RemoveReservation(netOK, Resolution(fetchOK), ok))

CallRebootEero ==
    /\ rkind = "eero"
    /\ \E netOK \in BOOLEAN, eerosOK \in BOOLEAN, fetchOK \in BOOLEAN, ok \in BOOLEAN :
         Updated("RebootEero", netOK /\ eerosOK, Resolution(fetchOK),
                 RebootEero(netOK, eerosOK, Resolution(fetchOK), ok))

UpdateNext ==
    \/ CallPauseDevice
    \/ CallBlockDevice
    \/ CallRenameDevice
    \/ CallPauseProfile
    \/ CallRemoveReservation
    \/ CallRebootEero

UpdateSpec == UpdateInit /\ [][UpdateNext]_vars

(***************************************************************************)
(* Properties of the monitor loop                                          *)
(***************************************************************************)
\* The devices of a listing that pass the filters of this run.
PassingIn(listing) ==
    {i \in 1..Len(listing) : MonitorPasses(filters, resolvedProfileName, listing[i])}

IdAt(listing, i) == ExtractDeviceID(listing[i].URL)

RowIDs(rs) == {rs[k].ID : k \in 1..Len(rs)}

\* The four fields the diff reads, taken from the listed device itself.
Tracked(d) == <<d.Connected, d.Paused, d.Blocked, d.IP>>
TrackedOf(st) == <<st.Connected, st.Paused, st.Blocked, st.IP>>

\* A step that is one successful tick / one failed tick of the loop.
SuccessfulTick == pc = "poll" /\ pc' = "sleep" /\ fetch' = "ok"
FailedTick == pc = "poll" /\ fetch' = "err"

\* C1: the first poll that yields a listing prints no row and leaves exactly
\* one snapshot per listed device that passes the filters (the state of the
\* loop right after that tick).
C1_FirstPollSilent ==
    (pc = "sleep" /\ fetch = "ok" /\ wasFirst) =>
        /\ rows = <<>>
        /\ DOMAIN prevState = {IdAt(devices, i) : i \in PassingIn(devices)}
        /\ Cardinality(DOMAIN prevState) = Cardinality(PassingIn(devices))

\* C1 witness: the first successful tick saw two devices, both passing the
\* filters; two snapshots are stored and nothing was printed.
C1_Witness ==
    /\ pc = "sleep" /\ fetch = "ok" /\ wasFirst
    /\ Len(devices) = 2
    /\ Cardinality(PassingIn(devices)) = 2
    /\ Cardinality(DOMAIN prevState) = 2
    /\ rows = <<>>

\* C2: on every successful tick after the first, a row is printed for a listed
\* device that passes the filters exactly when its ID has no snapshot yet (the
\* row is marked new) or its connected, paused, blocked or IP value differs
\* from the snapshot; rows are printed for such devices only, one each. So a
\* change of name, MAC, wireless, guest flag or profile alone prints nothing,
\* and one flipped connected flag prints one row.
C2_Step ==
    (SuccessfulTick /\ ~first) =>
        /\ \A i \in PassingIn(devices') :
              LET id == IdAt(devices', i)
                  isNew == id \notin DOMAIN prevState
                  differs == ~isNew /\ TrackedOf(prevState[id]) # Tracked(devices'[i])
              IN /\ (id \in RowIDs(rows')) <=> (isNew \/ differs)
                 /\ \A k \in 1..Len(rows') : rows'[k].ID = id => (rows'[k].IsNew <=> isNew)
        /\ RowIDs(rows') \subseteq {IdAt(devices', i) : i \in PassingIn(devices')}
        /\ Len(rows') = Cardinality(RowIDs(rows'))

C2_EventIffNewOrTrackedChange == [][C2_Step]_vars

\* C2 witness: a later tick listed two devices and printed exactly one row, for
\* a known device that is now disconnected.
C2_Witness ==
    /\ pc = "sleep" /\ fetch = "ok" /\ ~wasFirst
    /\ Len(devices) = 2
    /\ Len(rows) = 1
    /\ ~rows[1].IsNew
    /\ \E i \in 1..2 : IdAt(devices, i) = rows[1].ID /\ ~devices[i].Connected

\* C3: after every successful tick the snapshot of every listed device that
\* passed the filters is that device's state as just listed, whether or not a
\* row was printed for it; and a device whose tracked fields equal its snapshot
\* gets no row, so a change is reported once.
C3_Stored ==
    (pc = "sleep" /\ fetch = "ok") =>
        \A i \in PassingIn(devices) :
            /\ IdAt(devices, i) \in DOMAIN prevState
            /\ prevState[IdAt(devices, i)] = CurrentState(devices[i])

C3_Step ==
    (SuccessfulTick /\ ~first) =>
        \A i \in PassingIn(devices') :
            LET id == IdAt(devices', i) IN
            (id \in DOMAIN prevState
                /\ TrackedOf(prevState[id]) = Tracked(devices'[i]))
            => id \notin RowIDs(rows')

C3_SnapshotIsLatest == [](C3_Stored) /\ [][C3_Step]_vars

\* C3 witness: a later tick printed nothing for a device whose nickname had
\* changed, and the stored snapshot carries the new name.
C3_Witness ==
    /\ pc = "sleep" /\ fetch = "ok" /\ ~wasFirst
    /\ rows = <<>>
    /\ \E i \in PassingIn(devices) :
          /\ devices[i].Nickname # <<>>
          /\ prevState[IdAt(devices, i)].Name = devices[i].Nickname

\* C4: a tick whose GetDevices fails prints one error line and no row, leaves
\* the snapshot map and the first flag as they were and sleeps the full
\* interval; the step after it polls again, and no step of a failed tick
\* makes MonitorDevices return.
C4_Step ==
    /\ FailedTick =>
          /\ errLines' = 1
          /\ rows' = <<>>
          /\ prevState' = prevState
          /\ first' = first
          /\ pc' = "sleep"
          /\ retErr' = "none"
          /\ sleepFor' = EffectiveInterval(filters)
    /\ fetch = "err" => (pc = "sleep" /\ pc' = "poll" /\ prevState' = prevState)

C4_FetchFailureTolerated == [][C4_Step]_vars

\* C4 witness: a fetch failed after snapshots had been recorded; the loop is
\* asleep for the interval with the map intact.
C4_Witness ==
    /\ pc = "sleep" /\ fetch = "err" /\ errLines = 1
    /\ DOMAIN prevState # {}
    /\ sleepFor = EffectiveInterval(filters)

\* What the first successful poll leaves: no row, one snapshot per listed
\* device that passes the filters.
FirstPollRecorded ==
    /\ rows = <<>>
    /\ DOMAIN prevState = {IdAt(devices, i) : i \in PassingIn(devices)}

C26_Step ==
    /\ FailedTick => (first' = first /\ prevState' = prevState /\ rows' = <<>>)
    /\ (first /\ ~first') => (SuccessfulTick /\ FirstPollRecorded')

\* C26: while no GetDevices call has succeeded the loop is in its first-poll
\* phase with an empty snapshot map; a failed tick leaves the phase as it is,
\* and the step that ends the phase is a successful poll that records the
\* snapshots and prints no row.
C26_FirstPollEndsOnSuccess ==
    [](first => prevState = <<>>) /\ [][C26_Step]_vars

\* C26 witness: the first tick failed and the loop, asleep, is still in its
\* first-poll phase with nothing recorded.
C26_Witness ==
    /\ pc = "sleep" /\ fetch = "err" /\ errLines = 1
    /\ first /\ wasFirst
    /\ prevState = <<>>

\* The IDs of the listed devices that pass the filters.
PassingIDs(listing) == {IdAt(listing, i) : i \in PassingIn(listing)}

C27_Step ==
    /\ DOMAIN prevState \subseteq DOMAIN prevState'
    /\ SuccessfulTick =>
          /\ \A id \in DOMAIN prevState \ PassingIDs(devices') :
                prevState'[id] = prevState[id] /\ id \notin RowIDs(rows')
          /\ \A k \in 1..Len(rows') :
                rows'[k].ID \in DOMAIN prevState =>
                    /\ ~rows'[k].IsNew
                    /\ \E i \in PassingIn(devices') :
                          /\ IdAt(devices', i) = rows'[k].ID
                          /\ TrackedOf(prevState[rows'[k].ID]) # Tracked(devices'[i])

\* C27: no step removes an entry of the snapshot map; a tick keeps the entry
\* of a device that is not listed or does not pass the filters as it was and
\* prints no row for it; a row for a device that has an entry is never marked
\* new and is printed only when a tracked field differs from that entry.
C27_SnapshotsOnlyGrow == [][C27_Step]_vars

\* C27 witness: a later tick listed fewer devices than the map holds; the
\* entry of the missing device is still there and no row was printed.
C27_Witness ==
    /\ pc = "sleep" /\ fetch = "ok" /\ ~wasFirst
    /\ rows = <<>>
    /\ DOMAIN prevState \ PassingIDs(devices) # {}

\* C5: once the loop polls, every tick is followed by its sleep and every
\* sleep by another poll, and no step leaves the loop; MonitorDevices returns
\* only from the start position, with EnsureNetwork's error.
InLoop == pc \in {"poll", "sleep"}

C5_Step ==
    /\ InLoop => InLoop'
    /\ pc' = "returned" => (pc = "start" /\ retErr' = "EnsureNetwork")

C5_LoopNeverEnds ==
    /\ [](pc = "sleep" => <>(pc = "poll"))
    /\ [](pc = "poll" => <>(pc = "sleep" /\ fetch # "none"))
    /\ [][C5_Step]_vars

\* C5 witness: the loop is back at its poll after a first tick has completed.
C5_Witness == pc = "poll" /\ ~first /\ DOMAIN prevState # {}

(***************************************************************************)
(* Properties of the resolvers                                             *)
(***************************************************************************)
\* The canonical ID of a resource: the trailing path segment of its URL.
CanonicalID(c) == TrailingSegment(c.URL)

\* The resolver fetched its listing and ran its scan to the end.
Resolved == rout.done /\ rout.err.msg \notin {FetchErrMsg(k) : k \in Kinds}

SameOutcome(a, b) == a.found = b.found /\ a.id = b.id

LeastOf(S) == CHOOSE i \in S : \A j \in S : i <= j

\* C6, as claimed: a query equal, ignoring case, to the canonical ID of a
\* listed device resolves to that device's ID, whatever else in the listing
\* matches the query by ID prefix, MAC or display name.
C6_ExactIDWins ==
    (Resolved /\ rkind = "device") =>
        \A i \in 1..Len(rlist) :
            EqualFold(CanonicalID(rlist[i]), rquery) =>
                /\ rout.found
                /\ \E j \in 1..Len(rlist) :
                       /\ EqualFold(CanonicalID(rlist[j]), rquery)
                       /\ rout.id = CanonicalID(rlist[j])

\* The match the priority list describes for one candidate: canonical ID
\* equality, canonical ID prefix, secondary key, tertiary key, ignoring case.
ListedMatch(kind, c, q) ==
    \/ EqualFold(CanonicalID(c), q)
    \/ HasPrefix(ToLower(CanonicalID(c)), ToLower(q))
    \/ /\ kind = "device"
       /\ \/ StripColons(ToLower(c.MAC)) = StripColons(ToLower(q))
          \/ EqualFold(DisplayName(c), q)
    \/ kind = "profile" /\ EqualFold(c.Name, q)
    \/ /\ kind = "eero"
       /\ \/ EqualFold(c.Serial, q)
          \/ Contains(ToLower(c.Location), ToLower(q))

\* C7, as claimed: the device, profile and mesh-node resolvers return the
\* canonical ID of the first candidate in listing order that matches by ID,
\* ID prefix, secondary or tertiary key, so a prefix of a listed device's ID
\* resolves to that device when no earlier candidate matches.
C7_FirstMatchWins ==
    (Resolved /\ rkind \in {"device", "profile", "eero"}) =>
        LET hits == {i \in 1..Len(rlist) : ListedMatch(rkind, rlist[i], rquery)}
        IN IF hits = {} THEN ~rout.found
           ELSE rout.found /\ rout.id = CanonicalID(rlist[LeastOf(hits)])

\* Two spellings of one MAC: equal after lower-casing and removing ':'.
SameMac(q1, q2) == StripColons(ToLower(q1)) = StripColons(ToLower(q2))

\* The queries that spell the MAC of a device or reservation.
MacQueries ==
    {q \in Queries : \E c \in DevicePool \cup ReservationPool : SameMac(c.MAC, q)}

\* C8, as claimed: for every device or reservation listing and every MAC
\* query, every spelling of the query (with or without ':', in any letter
\* case) gives the same result.
C8_SeparatorInsensitive ==
    (Resolved /\ rkind \in {"device", "reservation"} /\ rquery \in MacQueries) =>
        \A q2 \in Queries :
            SameMac(q2, rquery) => SameOutcome(Resolve(rkind, rlist, q2), rout)

\* A candidate matches the query by a test other than the MAC comparison.
OtherMatch(kind, c, q) ==
    LET id == ExtractID(kind, c.URL) IN
    \/ id = ToLower(q)
    \/ kind = "device" /\ HasPrefix(ToLower(id), ToLower(q))
    \/ kind = "device" /\ EqualFold(DisplayName(c), q)
    \/ kind = "reservation" /\ c.IP = ToLower(q)

NoOtherMatch(q) == \A i \in 1..Len(rlist) : ~OtherMatch(rkind, rlist[i], q)

\* C8, amended: the MAC comparison ignores letter case and ':' on both
\* sides, so when no listed candidate matches a spelling by ID, ID prefix,
\* display name or IP, every such spelling of a MAC query gives the same
\* result: the first listed candidate with that MAC, or not-found.
C8_SeparatorInsensitiveAmended ==
    (/\ Resolved
     /\ rkind \in {"device", "reservation"}
     /\ rquery \in MacQueries
     /\ NoOtherMatch(rquery)) =>
        /\ \A q2 \in Queries :
               (SameMac(q2, rquery) /\ NoOtherMatch(q2)) =>
                   SameOutcome(Resolve(rkind, rlist, q2), rout)
        /\ LET hits == {i \in 1..Len(rlist) : SameMac(rlist[i].MAC, rquery)}
           IN IF hits = {} THEN ~rout.found
              ELSE /\ rout.found
                   /\ rout.id = ExtractID(rkind, rlist[LeastOf(hits)].URL)

\* C8 witness: an upper-case query without separators found a candidate whose
\* MAC is stored with separators.
C8_Witness ==
    /\ Resolved /\ rkind \in {"device", "reservation"}
    /\ rquery \in MacQueries /\ NoOtherMatch(rquery)
    /\ rout.found
    /\ \A k \in 1..Len(rquery) : rquery[k] # ":"
    /\ rquery # ToLower(rquery)
    /\ \E i \in 1..Len(rlist) :
           /\ SameMac(rlist[i].MAC, rquery)
           /\ \E k \in 1..Len(rlist[i].MAC) : rlist[i].MAC[k] = ":"
           /\ rout.id = ExtractID(rkind, rlist[i].URL)

\* C9: two queries that differ only in letter case give the same outcome
\* (the same ID, or not-found for both) in every resolver, whatever the case
\* of the stored IDs, MACs, names and IPs.
C9_CaseInsensitive ==
    Resolved =>
        \A q2 \in Queries :
            ToLower(q2) = ToLower(rquery) =>
                SameOutcome(Resolve(rkind, rlist, q2), rout)

\* C9 witness: a query typed in upper case found a device whose stored ID has
\* upper-case letters.
C9_Witness ==
    /\ Resolved /\ rkind = "device" /\ rout.found
    /\ rquery # ToLower(rquery)
    /\ rout.id # ToLower(rout.id)
    /\ EqualFold(rout.id, rquery)

\* C10, as claimed: when no candidate matches, the resolver returns no ID and
\* a not-found error that carries the query exactly as the operator typed it.
C10_NotFoundCarriesQuery ==
    (/\ Resolved
     /\ \A i \in 1..Len(rlist) : ~Matches(rkind, rlist[i], ToLower(rquery))) =>
        /\ ~rout.found
        /\ rout.id = <<>>
        /\ rout.err.msg = NotFoundMsg(rkind)
        /\ rout.err.query = rquery

\* The name a resolver compares the query with.
NameOf(kind, c) == IF kind = "device" THEN DisplayName(c) ELSE c.Name

\* q is a proper substring (a proper prefix included) of name, ignoring case.
PartOfName(q, name) == Contains(ToLower(name), ToLower(q)) /\ ~EqualFold(name, q)

\* A candidate matches the query by ID, by ID prefix or by MAC.
IdOrMacMatch(kind, c, q) ==
    LET id == ExtractID(kind, c.URL) IN
    \/ id = ToLower(q)
    \/ HasPrefix(ToLower(id), ToLower(q))
    \/ kind = "device" /\ SameMac(c.MAC, q)

\* The query is part of a listed name and matches no listed ID, ID prefix or MAC.
OnlyPartOfAName ==
    /\ Resolved /\ rkind \in {"device", "profile"}
    /\ \E i \in 1..Len(rlist) : PartOfName(rquery, NameOf(rkind, rlist[i]))
    /\ \A i \in 1..Len(rlist) : ~IdOrMacMatch(rkind, rlist[i], rquery)

\* C11, as claimed: a query that is a proper substring or proper prefix of a
\* device's display name or of a profile's name, and that matches no ID, ID
\* prefix or MAC, resolves to not-found.
C11_NoPartialNameMatch == OnlyPartOfAName => ~rout.found

\* C11, amended: such a query resolves to not-found unless it is the whole
\* name (ignoring case) of a listed candidate; a name never matches in part.
C11_NoPartialNameMatchAmended ==
    (/\ OnlyPartOfAName
     /\ \A i \in 1..Len(rlist) : ~EqualFold(NameOf(rkind, rlist[i]), rquery)) =>
        ~rout.found

\* C11 witness: a device lookup by a proper prefix of a display name ended in
\* not-found.
C11_Witness ==
    /\ OnlyPartOfAName /\ rkind = "device"
    /\ rquery # <<>>
    /\ \E i \in 1..Len(rlist) : HasPrefix(ToLower(DisplayName(rlist[i])), ToLower(rquery))
    /\ \A i \in 1..Len(rlist) : ~EqualFold(DisplayName(rlist[i]), rquery)
    /\ ~rout.found

\* The mutating Resource Client call of each command.
MutatingCall ==
    [PauseDevice |-> "PauseDevice", BlockDevice |-> "BlockDevice",
     RenameDevice |-> "SetDeviceNickname", PauseProfile |-> "PauseProfile",
     RemoveReservation |-> "DeleteReservation", RebootEero |-> "RebootEero"]

\* C29: a command that got no ID from its resolver (EnsureNetwork failed, a
\* listing fetch failed, or nothing matched) returns an error and issues no
\* mutating call; one that got an ID issues exactly one, its own, with that
\* ID as target; and a command returns success only after that call.
C29_UpdateOnlyResolvedID ==
    routed.done =>
        /\ ~rout.found => (routed.calls = <<>> /\ routed.err.kind # "")
        /\ rout.found =>
              /\ Len(routed.calls) = 1
              /\ routed.calls[1] = [op |-> MutatingCall[routed.handler], target |-> rout.id]
        /\ routed.err.kind = "" => rout.found

\* C29 witness: an eero was resolved and rebooted, one call for its ID.
C29_Witness ==
    /\ routed.done /\ routed.handler = "RebootEero"
    /\ rout.found /\ rout.id # <<>>
    /\ routed.err.kind = ""
    /\ routed.calls = <<[op |-> "RebootEero", target |-> rout.id]>>

\* C30: with the empty query and a listing that is not empty, findDeviceID,
\* findProfileID and findEeroID return not-found and no ID.
C30_EmptyQueryFindsNothing ==
    (rout.done /\ rquery = <<>> /\ rlist # <<>> /\ rkind \in {"device", "profile", "eero"}) =>
        (~rout.found /\ rout.id = <<>>)

(***************************************************************************)
(* Properties of the devices command                                       *)
(***************************************************************************)
\* ListDevices fetched the listing and printed its table.
Listed == listOut.done /\ listOut.err = "" /\ fetch = "ok"

\* The predicates the flags of this run enable.
EnabledPredicates ==
    (IF filters.Profile # <<>> THEN {"profile"} ELSE {})
    \cup (IF filters.NoProfile THEN {"noprofile"} ELSE {})
    \cup (IF filters.Wired THEN {"wired"} ELSE {})
    \cup (IF filters.Wireless THEN {"wireless"} ELSE {})
    \cup (IF filters.Online THEN {"online"} ELSE {})
    \cup (IF filters.Offline THEN {"offline"} ELSE {})
    \cup (IF filters.Guest THEN {"guest"} ELSE {})
    \cup (IF filters.NoGuest THEN {"noguest"} ELSE {})

\* The profile predicate: the device is shown with a profile whose name is
\* the resolved name or whose ID is the filter string, ignoring case.
InFilteredProfile(d) ==
    /\ ~d.IsGuest /\ ~d.Profile.IsNil
    /\ \/ EqualFold(d.Profile.Name, ListResolveProfile(filters, listProfiles).name)
       \/ EqualFold(ExtractProfileID(d.Profile.URL), filters.Profile)

\* One predicate on one device.
Holds(p, d) ==
    CASE p = "profile" -> InFilteredProfile(d)
      [] p = "noprofile" -> d.Profile.IsNil
      [] p = "wired" -> ~d.Wireless
      [] p = "wireless" -> d.Wireless
      [] p = "online" -> d.Connected
      [] p = "offline" -> ~d.Connected
      [] p = "guest" -> d.IsGuest
      [] p = "noguest" -> ~d.IsGuest

SatisfiesAll(d) == \A p \in EnabledPredicates : Holds(p, d)

SatisfiesAllButProfile(d) == \A p \in EnabledPredicates \ {"profile"} : Holds(p, d)

RowsOf(kept) == [k \in 1..Len(kept) |-> ListRow(kept[k])]

\* The listing of the example: an online wireless device in a profile, then
\* an offline wired device in none.
ExampleListing ==
    <<[BaseDevice(1) EXCEPT !.Profile = KidsProfile],
      [BaseDevice(2) EXCEPT !.Connected = FALSE, !.Wireless = FALSE, !.Paused = TRUE]>>

\* C12: ListDevices prints, in server order, exactly the devices that satisfy
\* every enabled predicate, and the count it reports is the number of rows;
\* on the example listing {online, wireless} gives the first device only and
\* {online, wired} gives none.
C12_ListIsConjunctiveFilter ==
    Listed =>
        /\ listOut.rows = RowsOf(SelectSeq(devices, SatisfiesAll))
        /\ listOut.total = Len(listOut.rows)
        /\ (devices = ExampleListing /\ EnabledPredicates = {"online", "wireless"}) =>
               listOut.rows = <<ListRow(ExampleListing[1])>>
        /\ (devices = ExampleListing /\ EnabledPredicates = {"online", "wired"}) =>
               listOut.rows = <<>>

\* C12 witness: {online, wireless} on the example listing printed one row.
C12_Witness ==
    /\ Listed /\ devices = ExampleListing
    /\ EnabledPredicates = {"online", "wireless"}
    /\ Len(listOut.rows) = 1 /\ listOut.total = 1

\* The --profile filter is set and matches no profile of the fetched list by
\* ID or by name, ignoring case.
FilterMatchesNoProfile ==
    /\ listOut.done /\ fetch = "ok"
    /\ filters.Profile # <<>>
    /\ listProfiles.ok
    /\ \A i \in 1..Len(listProfiles.list) :
           /\ ~EqualFold(ExtractProfileID(listProfiles.list[i].URL), filters.Profile)
           /\ ~EqualFold(listProfiles.list[i].Name, filters.Profile)

HasProfileNamed(d) == ~d.Profile.IsNil /\ EqualFold(d.Profile.Name, filters.Profile)

KeptByProfileName(d) == HasProfileNamed(d) /\ SatisfiesAllButProfile(d)

\* C13, as claimed: when the filter string matches no profile of the network,
\* ListDevices returns no error and includes exactly the devices whose
\* profile name equals the raw filter string ignoring case.
C13_FallbackByProfileName ==
    FilterMatchesNoProfile =>
        /\ listOut.err = ""
        /\ listOut.rows = RowsOf(SelectSeq(devices, KeptByProfileName))

HasProfileNamedOrIdentified(d) ==
    /\ ~d.IsGuest /\ ~d.Profile.IsNil
    /\ \/ EqualFold(d.Profile.Name, filters.Profile)
       \/ EqualFold(ExtractProfileID(d.Profile.URL), filters.Profile)

KeptByProfileNameOrID(d) == HasProfileNamedOrIdentified(d) /\ SatisfiesAllButProfile(d)

\* C13, amended: in that case ListDevices returns no error and includes
\* exactly the non-guest devices whose profile name or profile ID equals the
\* raw filter string ignoring case; with no such device the result is empty,
\* and a device with no profile is never included.
C13_FallbackByProfileNameOrID ==
    FilterMatchesNoProfile =>
        /\ listOut.err = ""
        /\ listOut.rows = RowsOf(SelectSeq(devices, KeptByProfileNameOrID))
        /\ ((\A i \in 1..Len(devices) : ~HasProfileNamedOrIdentified(devices[i])) =>
               listOut.rows = <<>>)
        /\ \A i \in 1..Len(devices) :
               devices[i].Profile.IsNil =>
                   \A k \in 1..Len(listOut.rows) : listOut.rows[k].ID # ExtractDeviceID(devices[i].URL)

\* C13 witness: a filter that matches no fetched profile kept a device by the
\* name of the profile it carries, and dropped another.
C13_Witness ==
    /\ FilterMatchesNoProfile
    /\ Len(listOut.rows) = 1 /\ Len(devices) > 1
    /\ \E i \in 1..Len(devices) :
           /\ ~devices[i].IsGuest /\ HasProfileNamed(devices[i])
           /\ listOut.rows[1].ID = ExtractDeviceID(devices[i].URL)

\* C14, as claimed: for the same filters, profile list and device listing,
\* the devices a monitor tick snapshots are the devices ListDevices displays.
C14_MonitorFilterIsListFilter ==
    Listed =>
        LET rpn == ResolveProfileName(filters, listProfiles.ok, listProfiles.list)
            tick == MonitorLoopBody(devices, 1, filters, rpn, TRUE,
                                    [prevState |-> <<>>, rows |-> <<>>])
        IN DOMAIN tick.prevState = {listOut.rows[k].ID : k \in 1..Len(listOut.rows)}

\* C15, as claimed: the devices command accepts the paused and the private
\* filter, and with the paused filter lists exactly the paused devices.
C15_PausedAndPrivateFilters ==
    (/\ listOut.done
     /\ args # <<>>
     /\ args[1].name \in {"--paused", "--private"}) =>
        /\ listOut.err = ""
        /\ (args[1].name = "--paused" =>
               listOut.rows = RowsOf(SelectSeq(devices, LAMBDA d : d.Paused)))

(***************************************************************************)
(* Properties of the API client                                            *)
(***************************************************************************)
\* The body is an error envelope: an object whose meta is an object with a
\* non-empty string error and, if it has a code, a numeric one.
EnvelopeWithError(b) ==
    /\ b.json.t = "object"
    /\ "meta" \in DOMAIN b.json.f
    /\ b.json.f.meta.t = "object"
    /\ "error" \in DOMAIN b.json.f.meta.f
    /\ b.json.f.meta.f.error.t = "string"
    /\ b.json.f.meta.f.error.s # <<>>
    /\ ("code" \in DOMAIN b.json.f.meta.f => b.json.f.meta.f.code.t \in {"number", "null"})

\* C16: for a response read in full, request returns the body unchanged and
\* no error exactly when the status is in 200..299; for any other status it
\* returns no bytes and an error that carries meta.error when the body is an
\* error envelope, and the status code with the raw body otherwise; an
\* exchange that gave no readable response returns an error and no bytes.
C16_SuccessIffStatus2xx ==
    call.op = "request" =>
        LET o == wire[1].resp IN
        IF o.got # "response"
        THEN result.err # NoError /\ result.value = NoBytes
        ELSE IF o.status \in 200..299
        THEN result.err = NoError /\ result.value = Bytes(o.body)
        ELSE /\ result.value = NoBytes
             /\ result.err # NoError
             /\ result.err =
                    IF EnvelopeWithError(o.body)
                    THEN Err("API error: %s", 0, "", o.body.json.f.meta.f.error.s)
                    ELSE Err("API error (status %d): %s", o.status, o.body.text, <<>>)

\* C16 witness: a status-299 response whose body is no JSON came back as
\* bytes without an error.
C16_Witness ==
    /\ call.op = "request"
    /\ wire[1].resp.got = "response" /\ wire[1].resp.status = 299
    /\ wire[1].resp.body.json = NotJSON /\ wire[1].resp.body.text # ""
    /\ result.err = NoError /\ result.value = Bytes(wire[1].resp.body)

\* The Cookie header a request built with token tok has.
CookieFor(tok) ==
    IF tok = <<>> THEN [set |-> FALSE, value |-> <<>>]
    ELSE [set |-> TRUE, value |-> <<"s", "=">> \o tok]

\* C17: the request LoginVerify sends is a POST to /login/verify whose cookie
\* is s=<token> for the token passed in, whatever token the client held, and
\* the client holds that token afterwards; every request any method sends
\* has the cookie of the client's token, and none when the token is empty.
C17_CookieIsCurrentToken ==
    /\ call.op = "LoginVerify" =>
           /\ token = call.arg
           /\ Len(wire) = 1
           /\ wire[1].req.method = "POST"
           /\ wire[1].req.url = <<baseURL, "/2.2/login/verify">>
           /\ wire[1].req.Cookie = CookieFor(call.arg)
    /\ \A k \in 1..Len(wire) : wire[k].req.Cookie = CookieFor(token)

\* C17 witness: the client held one token and LoginVerify sent another.
C17_Witness ==
    /\ call.op = "LoginVerify"
    /\ call.held # <<>> /\ call.arg # <<>> /\ call.held # call.arg
    /\ wire[1].req.Cookie.set
    /\ wire[1].req.Cookie.value = <<"s", "=">> \o call.arg

\* C18: with an empty token ValidateToken sends nothing and returns false;
\* otherwise it sends one GET /2.2/account and returns true exactly when
\* GetAccount on that exchange returns no error; it returns no error itself
\* and leaves the token as it was.
C18_ValidateToken ==
    call.op = "ValidateToken" =>
        /\ token = call.held
        /\ result.err = NoError
        /\ result.value \in BOOLEAN
        /\ IF call.held = <<>>
           THEN wire = <<>> /\ result.value = FALSE
           ELSE /\ Len(wire) = 1
                /\ wire[1].req.method = "GET"
                /\ wire[1].req.url = <<baseURL, "/2.2/account">>
                /\ result.value = (GetAccount(call.held, wire[1].resp).err = NoError)

\* C18 witnesses: both results with a token held, and the silent false
\* without one.
C18_Witness ==
    /\ call.op = "ValidateToken"
    /\ call.held # <<>>
    /\ result.value = FALSE
    /\ wire[1].resp.got = "response" /\ wire[1].resp.status = 401

(***************************************************************************)
(* Properties of the session                                               *)
(***************************************************************************)
\* The exchange is a GET of the account that gave an account.
AccountFetched(x) ==
    /\ x.req.method = "GET"
    /\ x.req.url = <<baseURL, "/2.2/account">>
    /\ GetAccount(token, x.resp).err = NoError

\* The networks of the account an exchange returned.
NetworksOf(x) == GetAccount(token, x.resp).value.Networks

\* The latest call is an EnsureNetwork that passed EnsureAuth.
AuthenticatedEnsureNetwork ==
    /\ call.op = "EnsureNetwork"
    /\ Len(wire) >= 1
    /\ AccountFetched(wire[1])

\* C19, with call.arg the network ID the config held when the latest call
\* began: a network ID once in the config stays as it is; an authenticated
\* EnsureNetwork call that finds one there returns it with no account fetch
\* beyond that of the authentication; one that finds none fetches the
\* account and, if it has networks, stores the trailing segment of the first
\* network's URL in the config and saves it before returning it, and if it
\* has none returns an error and leaves the config's network ID empty.
C19_ResolvedAtMostOnce ==
    /\ (call.op \in {"EnsureAuth", "EnsureNetwork"} /\ call.arg # <<>>) =>
           config.NetworkID = call.arg
    /\ (AuthenticatedEnsureNetwork /\ call.arg # <<>>) =>
           /\ result.err = NoError
           /\ result.value = call.arg
           /\ Len(wire) = 1
    /\ (AuthenticatedEnsureNetwork /\ call.arg = <<>>) =>
           /\ Len(wire) = 2
           /\ wire[2].req.method = "GET"
           /\ wire[2].req.url = <<baseURL, "/2.2/account">>
           /\ (AccountFetched(wire[2]) /\ NetworksOf(wire[2]) = <<>>) =>
                  result.err # NoError /\ config.NetworkID = <<>>
           /\ (AccountFetched(wire[2]) /\ NetworksOf(wire[2]) # <<>>) =>
                  /\ config.NetworkID = TrailingSegment(NetworksOf(wire[2])[1].URL)
                  /\ result.err = NoError =>
                         /\ result.value = config.NetworkID
                         /\ disk = config
           /\ ~AccountFetched(wire[2]) =>
                  result.err # NoError /\ config.NetworkID = <<>>

\* C19 witness: a session that started without a network ID resolved the
\* first of two networks, saved it, and a later call returned it from the
\* config with the authentication fetch alone.
C19_Witness ==
    /\ call.op = "EnsureNetwork"
    /\ call.arg = <<"6", "7", "8", "9", "0">>
    /\ config.NetworkID = call.arg /\ disk = config
    /\ Len(wire) = 1
    /\ result.err = NoError /\ result.value = call.arg

\* The latest call is a login whose Login and LoginVerify calls were made
\* and succeeded, judged by the exchanges on the wire.
VerifiedLogin ==
    /\ call.op = "App.Login"
    /\ call.arg.identity # <<>> /\ call.arg.code # <<>>
    /\ Len(wire) >= 2
    /\ Login(call.held, call.arg.identity, wire[1].resp).err = NoError
    /\ LoginVerify(call.held, Login(call.held, call.arg.identity, wire[1].resp).value,
                   call.arg.code, wire[2].resp).err = NoError

\* The user token the login endpoint returned.
UserTokenOf(x) == Login(call.held, call.arg.identity, x.resp).value

\* C28: a login that did not get through both Login and LoginVerify returns
\* an error, leaves the config and its file as they were and does not call
\* Save; one that did puts the user token in the config and calls Save once
\* with it, whether or not the account fetch that follows succeeded, and the
\* file holds the token unless that Save failed.
C28_TokenSavedOnlyAfterVerification ==
    /\ (call.op = "App.Login" /\ ~VerifiedLogin) =>
          /\ result.err # NoError
          /\ config = call.arg.config
          /\ disk = call.arg.disk
          /\ result.value = <<>>
    /\ VerifiedLogin =>
          /\ config.Token = UserTokenOf(wire[1])
          /\ Len(result.value) = 1
          /\ result.value[1] = config
          /\ result.err.kind # "saving config: %w" => (result.err = NoError /\ disk = config)
          /\ result.err.kind = "saving config: %w" => disk = call.arg.disk

\* C28 witness: the login was verified, the account fetch got no response,
\* and the file now holds the new token with the network ID it had.
C28_Witness ==
    /\ VerifiedLogin
    /\ Len(wire) = 3 /\ wire[3].resp = DoFails
    /\ result.err = NoError
    /\ disk.Token = <<"u", "2">> /\ call.arg.disk.Token # <<"u", "2">>
    /\ disk.NetworkID = call.arg.disk.NetworkID

(***************************************************************************)
(* Properties of profile membership                                        *)
(***************************************************************************)
\* C20, as claimed: for a member list L without device d, a successful
\* AddDeviceToProfile of d writes L followed by d, and a successful
\* RemoveDeviceFromProfile of d after it writes L.
C20_AddThenRemoveRestores ==
    ~Listed20(original, TargetURL) =>
        /\ phase = "added" => written = [done |-> TRUE, list |-> original \o <<TargetURL>>]
        /\ phase = "removed" => written = [done |-> TRUE, list |-> original]

\* The latest membership command got as far as comparing the member list.
ReachedMemberList ==
    /\ call.op \in {"AddDeviceToProfile", "RemoveDeviceFromProfile"}
    /\ result.err.kind \in {"nil", "updating profile: %w",
                            "device %s is already in profile %s",
                            "device %s is not in profile %s"}

\* C21: AddDeviceToProfile of a device the profile already lists fails with
\* "already in profile", RemoveDeviceFromProfile of a device it does not list
\* fails with "not in profile", and neither calls SetProfileDevices nor
\* changes the membership.
C21_RejectedWithoutWrite ==
    /\ (ReachedMemberList /\ call.op = "AddDeviceToProfile"
            /\ Listed20(before, TargetURL)) =>
          /\ result.err.kind = "device %s is already in profile %s"
          /\ written = NothingWritten
          /\ members = before
    /\ (ReachedMemberList /\ call.op = "RemoveDeviceFromProfile"
            /\ ~Listed20(before, TargetURL)) =>
          /\ result.err.kind = "device %s is not in profile %s"
          /\ written = NothingWritten
          /\ members = before

\* A command wrote the member list after the vendor's app changed it.
WroteOverExternal(kind) ==
    /\ inflight = NothingInFlight
    /\ external.kind = kind
    /\ result.err = NoError
    /\ written.done

\* C22, as claimed: a member the vendor's app added between the command's
\* read and its write is still a member after the write, and one it removed
\* is still not.
C22_ExternalChangeSurvives ==
    /\ WroteOverExternal("add") => Listed20(members, external.url)
    /\ WroteOverExternal("remove") => ~Listed20(members, external.url)

\* C22, amended: the list given to SetProfileDevices is the list the command's
\* GetProfileDetails returned, in order, with one device URL appended or
\* removed; a successful write becomes the membership, so what the vendor's
\* app changed between the read and the write is undone.
C22_WritesWhatItRead ==
    (inflight = NothingInFlight /\ written.done) =>
        /\ call.op = "AddDeviceToProfile" =>
              /\ Len(written.list) = Len(before) + 1
              /\ SubSeq(written.list, 1, Len(before)) = before
        /\ call.op = "RemoveDeviceFromProfile" =>
              \E k \in 1..Len(before) : written.list = Without(before, before[k])
        /\ result.err = NoError => members = written.list
        /\ WroteOverExternal("add") => ~Listed20(members, external.url)
        /\ WroteOverExternal("remove") => Listed20(members, external.url)

\* An addition to a profile with members wrote over a change of the app's.
C22_Witness ==
    /\ WroteOverExternal("add")
    /\ call.op = "AddDeviceToProfile"
    /\ before # <<>>

\* A Resource Client call of the devices listing failed.
ListCallFailed ==
    \/ fetch = "err"
    \/ listProfiles.fetched /\ ~listProfiles.ok

\* C23: a command one of whose Resource Client calls failed returns an error;
\* for the devices listing, a failed GetDevices or a failed GetProfiles makes
\* ListDevices return an error.
C23_FailedCallFailsCommand ==
    (listOut.done /\ ListCallFailed) => listOut.err # ""

\* The subcommands of each command and the arguments each requires.
RequiredArguments ==
    [devices |-> [monitor |-> 0, pause |-> 1, unpause |-> 1, block |-> 1, unblock |-> 1,
                  rename |-> 2],
     profiles |-> [inspect |-> 1, pause |-> 1, unpause |-> 1, add |-> 2, remove |-> 2],
     eeros |-> [list |-> 0, inspect |-> 1, reboot |-> 1],
     guest |-> [enable |-> 0, disable |-> 0, password |-> 1],
     reservations |-> [add |-> 2, remove |-> 1, inspect |-> 1]]

\* The words of the command line that are not filter flags of devices.
Operands ==
    IF cmdline.group = "devices" THEN DeviceArgs(cmdline.words).rest ELSE cmdline.words

UnknownSubcommand ==
    /\ Operands # <<>>
    /\ Operands[1].name \notin DOMAIN RequiredArguments[cmdline.group]

MissingArgument ==
    /\ Operands # <<>>
    /\ Operands[1].name \in DOMAIN RequiredArguments[cmdline.group]
    /\ Len(Operands) - 1 < RequiredArguments[cmdline.group][Operands[1].name]

\* C24: a subcommand missing its required argument gets a usage error and an
\* unrecognised subcommand an "unknown subcommand" error naming it, and in
\* both cases no handler runs and no Resource Client call is issued.
C24_MalformedRejectedBeforeCalls ==
    routed.done =>
        /\ MissingArgument =>
              routed.err.kind = "usage" /\ routed.handler = "none" /\ routed.calls = <<>>
        /\ UnknownSubcommand =>
              /\ routed.err.kind = "unknown" /\ routed.err.arg = Operands[1].val
              /\ routed.handler = "none" /\ routed.calls = <<>>

\* guest password without the password was rejected.
C24_Witness ==
    /\ routed.done
    /\ cmdline = [group |-> "guest", words |-> <<Word_password>>]
    /\ routed.err.kind = "usage"

\* C25: for every URL shape the API returns, ExtractNetworkID,
\* ExtractDeviceID and ExtractProfileID return the trailing path segment of
\* the URL, and they return a value for every input, short ones included.
C25_ExtractIsTrailingSegment ==
    rout.done =>
        /\ rout.found
        /\ rquery \in APIShapes(rkind) => rout.id = TrailingSegment(rquery)

====
